---- MODULE Spec2Model ----
(***************************************************************************)
(* A model of cascache: the generation-guarded (CAS) cache front, its      *)
(* wire envelope and its generation stores.                                *)
(*                                                                         *)
(* Client goroutines are the processes 1..NumProcs.  Every call of the     *)
(* cache that reaches the value store (Provider) is one step, so that      *)
(* calls of different goroutines interleave at the places where the code   *)
(* does I/O.  A call of the generation store (GenStore) that reads the     *)
(* clock before it takes the lock, or that sends two commands, is one      *)
(* step for each.                                                          *)
(***************************************************************************)
EXTENDS Integers, Sequences, FiniteSets, TLC

(***************************************************************************)
(* Bounds of the model.                                                    *)
(***************************************************************************)
\* number of client goroutines
NumProcs == 2
\* number of Invalidate calls (generation bumps) per key
MaxGen == 2
\* number of SetWithGen calls issued through the raw API
MaxWrites == 2
\* number of backing-store mutations per key in the cache-aside protocol
MaxDb == 2
\* logical clock range of the local generation store
MaxTime == 3

Procs == 1..NumProcs
Replicas == {1, 2}
Keys == {"u1"}
Namespace == "user"

(***************************************************************************)
(* Bytes.                                                                  *)
(***************************************************************************)

\* a variant that writes only the least significant byte of n
LowByteOnly(n, w) == [i \in 1..w |-> IF i = w THEN n % 256 ELSE 0]

\* binary.BigEndian.PutUint64 / PutUint32: n as w big-endian bytes.
\* (The numbers of the model stay far below 2^31, the range of TLC's integers;
\* a uint64 generation wraps only after 2^64 bumps.)
RECURSIVE BigEndian(_, _)
BigEndian(n, w) ==
    IF w = 0 THEN <<>> ELSE BigEndian(n \div 256, w - 1) \o <<n % 256>>

\* binary.BigEndian.Uint64 / Uint32: the number held by the bytes b
RECURSIVE FromBigEndian(_)
FromBigEndian(b) ==
    IF Len(b) = 0 THEN 0
    ELSE 256 * FromBigEndian(SubSeq(b, 1, Len(b) - 1)) + b[Len(b)]

\* b[lo:hi] of Go (0-based, hi exclusive)
Slice(b, lo, hi) == SubSeq(b, lo + 1, hi)

(***************************************************************************)
(* internal/wire: the single-entry frame.                                  *)
(***************************************************************************)
version == 1
kindSingle == 1
kindBulk == 2
magic4 == <<67, 65, 83, 67>>

hasMagic(b) == Len(b) >= 4 /\ Slice(b, 0, 4) = magic4

\* a variant that writes the kind of a bulk entry
EncodeSingleAsBulk(gen, payload) ==
    magic4 \o <<version>> \o <<kindBulk>>
           \o BigEndian(gen, 8)
           \o BigEndian(Len(payload), 4)
           \o payload

\* magic(4) | ver(1) | kind(1=single) | gen(u64) | vlen(u32) | payload(vlen)
EncodeSingle(gen, payload) ==
    magic4 \o <<version>> \o <<kindSingle>>
           \o BigEndian(gen, 8)
           \o BigEndian(Len(payload), 4)
           \o payload

Corrupt == [err |-> TRUE, gen |-> 0, payload |-> <<>>]

\* DecodeSingle of internal/wire/wire.go, a draft the cache is not built
\* with: bytes after the payload are ignored
DecodeSingle(b) ==
    LET hdr == 4 + 1 + 1 + 8 + 4 IN
    IF Len(b) < hdr \/ ~hasMagic(b) \/ b[5] # version \/ b[6] # kindSingle
    THEN Corrupt
    ELSE LET gen  == FromBigEndian(Slice(b, 6, 14))
             vlen == FromBigEndian(Slice(b, 14, 18))
             off  == 18
         IN IF vlen < 0 \/ vlen > Len(b) - off
            THEN Corrupt
            ELSE [err |-> FALSE, gen |-> gen, payload |-> Slice(b, off, off + vlen)]

\* DecodeSingle of the wire package the cache is built with: the frame must
\* consume the whole buffer (off+vlen != len(b) is ErrCorrupt)
DecodeSingleStrict(b) ==
    LET hdr == 4 + 1 + 1 + 8 + 4 IN
    IF Len(b) < hdr \/ ~hasMagic(b) \/ b[5] # version \/ b[6] # kindSingle
    THEN Corrupt
    ELSE LET gen  == FromBigEndian(Slice(b, 6, 14))
             vlen == FromBigEndian(Slice(b, 14, 18))
             off  == 18
         IN IF vlen < 0 \/ off + vlen # Len(b)
            THEN Corrupt
            ELSE [err |-> FALSE, gen |-> gen, payload |-> Slice(b, off, off + vlen)]

(***************************************************************************)
(* internal/wire: the bulk frame.  The keys of the model are written in    *)
(* bytes as KeyText gives them; bytes that spell no key of the model read  *)
(* back as the key "?".                                                    *)
(***************************************************************************)
\* the user keys of the bulk calls, in the order of sort.Strings
KeyOrder == <<"a", "a,b", "b", "u1", "u3", "u4">>
BulkUserKeys == {"u1", "u3"}

Range(f) == {f[x] : x \in DOMAIN f}

\* the largest key length of a bulk item: 0xFFFF
maxKeyLen == 65535

\* keys that only the encoders see: the empty key, a key of one byte, a key of
\* maxKeyLen bytes and a key of one byte more
LengthKeys == {"", "a", "longest", "too long"}

\* []byte(key)
KeyText == [k \in Range(KeyOrder) \cup {"?"} \cup LengthKeys |->
              IF k = "u1" THEN <<117, 49>>
              ELSE IF k = "u3" THEN <<117, 51>>
              ELSE IF k = "u4" THEN <<117, 52>>
              ELSE IF k = "" THEN <<>>
              ELSE IF k = "a" THEN <<97>>
              ELSE IF k = "b" THEN <<98>>
              ELSE IF k = "a,b" THEN <<97, 44, 98>>
              ELSE IF k = "longest" THEN [i \in 1..maxKeyLen |-> 97]
              ELSE IF k = "too long" THEN [i \in 1..(maxKeyLen + 1) |-> 97]
              ELSE <<63>>]

\* string(keyBytes)
StringOf(bs) ==
    IF \E k \in DOMAIN KeyText : KeyText[k] = bs
    THEN CHOOSE k \in DOMAIN KeyText : KeyText[k] = bs
    ELSE "?"

BulkItem(key, gen, payload) == [Key |-> key, Gen |-> gen, Payload |-> payload]

\* keyLen(u16) | key(keyLen) | gen(u64) | vlen(u32) | payload(vlen)
EncodeItem(it) ==
    BigEndian(Len(KeyText[it.Key]), 2) \o KeyText[it.Key]
        \o BigEndian(it.Gen, 8)
        \o BigEndian(Len(it.Payload), 4) \o it.Payload

RECURSIVE EncodeItems(_)
EncodeItems(items) ==
    IF items = <<>> THEN <<>>
    ELSE EncodeItem(Head(items)) \o EncodeItems(Tail(items))

\* l == 0 || l > 0xFFFF, for some item's key
BadKeyLength(items) ==
    \E i \in 1..Len(items) :
        \/ Len(KeyText[items[i].Key]) = 0
        \/ Len(KeyText[items[i].Key]) > maxKeyLen

\* magic(4) | ver(1) | kind(1=bulk) | n(u32) | the items
BulkFrame(items) ==
    magic4 \o <<version>> \o <<kindBulk>>
           \o BigEndian(Len(items), 4) \o EncodeItems(items)

\* a variant that writes the frame whatever the key lengths
EncodeBulkUnchecked(items) == [err |-> FALSE, bytes |-> BulkFrame(items)]

\* EncodeBulk of the wire package the cache is built with, which returns
\* ([]byte, error): a key of length 0 or above 0xFFFF is an error, found
\* before any byte is written
EncodeBulk(items) ==
    IF BadKeyLength(items)
    THEN [err |-> TRUE, bytes |-> <<>>]
    ELSE [err |-> FALSE, bytes |-> BulkFrame(items)]

\* EncodeBulk of internal/wire/wire.go, which returns []byte: a key of length
\* 0 or above 0xFFFF panics, and the call returns nothing
EncodeBulkPanics(items) ==
    IF BadKeyLength(items)
    THEN [panic |-> TRUE, bytes |-> <<>>]
    ELSE [panic |-> FALSE, bytes |-> BulkFrame(items)]

CorruptBulk == [err |-> TRUE, items |-> <<>>]
CorruptItems == [err |-> TRUE, items |-> <<>>, off |-> 0]

\* the loop of DecodeBulk: n more items of b from offset off on, after items;
\* off is where the loop ended
RECURSIVE DecodeItems(_, _, _, _)
DecodeItems(b, off, n, items) ==
    IF n = 0 THEN [err |-> FALSE, items |-> items, off |-> off]
    ELSE IF off + 2 > Len(b) THEN CorruptItems
    ELSE LET klen == FromBigEndian(Slice(b, off, off + 2))
             off1 == off + 2
         IN IF klen <= 0 \/ klen > Len(b) - off1 THEN CorruptItems
            ELSE LET keyBytes == Slice(b, off1, off1 + klen)
                     off2 == off1 + klen
                 IN IF off2 + 8 > Len(b) THEN CorruptItems
                    ELSE LET gen == FromBigEndian(Slice(b, off2, off2 + 8))
                             off3 == off2 + 8
                         IN IF off3 + 4 > Len(b) THEN CorruptItems
                            ELSE LET vlen == FromBigEndian(Slice(b, off3, off3 + 4))
                                     off4 == off3 + 4
                                 IN IF vlen < 0 \/ vlen > Len(b) - off4
                                    THEN CorruptItems
                                    ELSE DecodeItems(b, off4 + vlen, n - 1,
                                             Append(items,
                                                 BulkItem(StringOf(keyBytes), gen,
                                                     Slice(b, off4, off4 + vlen))))

\* DecodeBulk of internal/wire/wire.go, a draft the cache is not built with:
\* bytes after the last item are ignored
DecodeBulk(b) ==
    LET hdr == 4 + 1 + 1 + 4 IN
    IF Len(b) < hdr \/ ~hasMagic(b) \/ b[5] # version \/ b[6] # kindBulk
    THEN CorruptBulk
    ELSE LET d == DecodeItems(b, 10, FromBigEndian(Slice(b, 6, 10)), <<>>)
         IN [err |-> d.err, items |-> d.items]

\* the items the heap of the process has room for: make([]BulkItem, 0, n)
\* with a larger n is refused by the runtime where memory is not
\* overcommitted, with the fatal error "out of memory" that ends the process
HeapItems == 1073741824

\* n of items := make([]BulkItem, 0, n) in DecodeBulk: the count the header
\* announces, asked for before any item is read; 0 where DecodeBulk has
\* returned before
DecodeBulkCap(b) ==
    LET hdr == 4 + 1 + 1 + 4 IN
    IF Len(b) < hdr \/ ~hasMagic(b) \/ b[5] # version \/ b[6] # kindBulk
    THEN 0
    ELSE FromBigEndian(Slice(b, 6, 10))

\* the outcomes of that make: TRUE, the process ends there, and FALSE,
\* DecodeBulk goes on to its loop
DecodeBulkFatal(b) == {FALSE} \cup {DecodeBulkCap(b) > HeapItems}

\* a variant that lets bytes follow the items
DecodeBulkTrailing(b) == DecodeBulk(b)

\* DecodeBulk of the wire package the cache is built with: no byte may follow
\* the items, and the capacity asked for is at most what the buffer can hold
DecodeBulkStrict(b) ==
    LET hdr == 4 + 1 + 1 + 4 IN
    IF Len(b) < hdr \/ ~hasMagic(b) \/ b[5] # version \/ b[6] # kindBulk
    THEN CorruptBulk
    ELSE LET d == DecodeItems(b, 10, FromBigEndian(Slice(b, 6, 10)), <<>>)
         IN IF d.err \/ d.off # Len(b) THEN CorruptBulk
            ELSE [err |-> FALSE, items |-> d.items]

(***************************************************************************)
(* The value codecs: codec.Bytes, the codec of []byte values, and          *)
(* codec.JSON.  A value of the model is a short sequence of numbers; its   *)
(* JSON document is that sequence between braces, and nothing else is a    *)
(* document of the value type.                                             *)
(***************************************************************************)
\* codec.Bytes
BytesEncode(v) == [err |-> FALSE, bytes |-> v]
BytesDecode(b) == [err |-> FALSE, v |-> b]

\* a Codec whose Encode returns an error for some values (as json.Marshal does
\* for a value it cannot marshal): here for the values of the second write
RefusingEncode(v) ==
    IF v # <<>> /\ v[1] = 2 THEN [err |-> TRUE, bytes |-> <<>>]
    ELSE [err |-> FALSE, bytes |-> v]

\* codec.JSON: json.Marshal(v) and json.Unmarshal(b, &v)
JSONEncode(v) == [err |-> FALSE, bytes |-> <<123>> \o v \o <<125>>]
JSONDecode(b) ==
    IF Len(b) >= 2 /\ b[1] = 123 /\ b[Len(b)] = 125
    THEN [err |-> FALSE, v |-> SubSeq(b, 2, Len(b) - 1)]
    ELSE [err |-> TRUE, v |-> <<>>]

(***************************************************************************)
(* Storage keys.                                                           *)
(***************************************************************************)
singleKey(ns, userKey) == "single:" \o ns \o ":" \o userKey

RedisKey(ns, k) == "gen:" \o ns \o ":" \o k

\* the keys as the caller gave them
AsGiven(keys) == keys

\* uniqSorted(keys): the distinct keys, ascending
uniqSorted(keys) == SelectSeq(KeyOrder, LAMBDA k : k \in Range(keys))

\* the place of key k in the order of sort.Strings
Rank(k) == CHOOSE i \in 1..Len(KeyOrder) : KeyOrder[i] = k

\* sort.Strings(s) on a copy of keys: the same keys, as often, ascending
sortStrings(keys) ==
    CHOOSE s \in [1..Len(keys) -> Range(keys)] :
        /\ \A k \in Range(keys) :
              Cardinality({i \in 1..Len(keys) : s[i] = k})
                  = Cardinality({i \in 1..Len(keys) : keys[i] = k})
        /\ \A i \in 1..Len(keys), j \in 1..Len(keys) :
              i < j => Rank(s[i]) <= Rank(s[j])

\* strings.Join(s, sep)
RECURSIVE Join(_, _)
Join(s, sep) ==
    IF s = <<>> THEN ""
    ELSE IF Len(s) = 1 THEN s[1]
    ELSE s[1] \o sep \o Join(Tail(s), sep)

\* the 4 bytes of a key's length, written as text
U32Text(n) == "000" \o <<"0", "1", "2", "3", "4", "5", "6", "7", "8", "9">>[n + 1]

\* a variant that sets the keys apart with a comma
CommaSeparated(sortedKeys) == Join(sortedKeys, ",")

\* the buffer of util.BulkKeySorted: every key behind its length
RECURSIVE LengthPrefixed(_)
LengthPrefixed(sortedKeys) ==
    IF sortedKeys = <<>> THEN ""
    ELSE U32Text(Len(Head(sortedKeys))) \o Head(sortedKeys)
             \o LengthPrefixed(Tail(sortedKeys))

\* hex16 of sha256.Sum256(buf): the digest is named by the buffer it was
\* computed from, so that two keys are equal exactly if the buffers are
hex16Sum256(buf) == "sha256(" \o buf \o ")"

\* util.BulkKeySorted(prefix, sortedKeys)
BulkKeySorted(prefix, sortedKeys) ==
    prefix \o ":" \o hex16Sum256(LengthPrefixed(sortedKeys))

\* util.BulkKey(prefix, keys) of internal/util/keys.go: the sorted keys joined
\* with "," and hashed
BulkKey(prefix, keys) ==
    prefix \o ":" \o hex16Sum256(Join(sortStrings(keys), ","))

\* c.bulkKeySorted(sortedKeys)
bulkKeySorted(ns, sortedKeys) == BulkKeySorted("bulk:" \o ns, sortedKeys)

(***************************************************************************)
(* Go maps as functions with a finite domain.                              *)
(***************************************************************************)
EmptyMap == <<>>
\* the keys the callers of the generation store read, and those they bump
GenUserKeys == {"u1", "u2"}
BumpUserKeys == {"u1"}
GenKeys == {singleKey(Namespace, k) : k \in GenUserKeys}

MapHas(m, k) == k \in DOMAIN m
MapPut(m, k, v) == [x \in DOMAIN m \cup {k} |-> IF x = k THEN v ELSE m[x]]
MapDel(m, k) == [x \in DOMAIN m \ {k} |-> m[x]]

Max(a, b) == IF a >= b THEN a ELSE b

(***************************************************************************)
(* State.                                                                  *)
(*   opts   construction options: the kind of GenStore, and which value    *)
(*          store each replica's cache was built over                      *)
(*   store  the other fields of the LocalGenStore: who holds mu, ticker,   *)
(*          stopCh, retention, and the state of the ticker and channel     *)
(*   gens   LocalGenStore.gens: storage key -> [Gen, UpdatedAt]            *)
(*   rdb    the Redis keyspace of RedisGenStore: key -> [val, ttl], the   *)
(*          decimal string of the counter and whether it has a TTL         *)
(*   now    the clock read by time.Now()                                   *)
(*   prov   the value stores: provider -> (storage key -> bytes)           *)
(*   db     the application's backing store: key -> version of the row     *)
(*   pc     where each goroutine is in the call it is executing            *)
(*   loc    the local variables of that call                               *)
(*   res    what the goroutine's last call returned                        *)
(*   hist   history: what has been written and invalidated so far; with   *)
(*          "cached" in hist.watch it also keeps which values an          *)
(*          Invalidate found                                               *)
(*          cached when it was called                                     *)
(***************************************************************************)
VARIABLES opts, store, gens, rdb, now, prov, db, pc, loc, res, hist

vars == <<opts, store, gens, rdb, now, prov, db, pc, loc, res, hist>>

\* variants of the two flags of newCache that ignore the options
alwaysEnabled == TRUE
bulkAlwaysEnabled == TRUE

\* newCache: enabled: !opts.Disabled and c.bulkEnabled = !opts.DisableBulk
enabled == ~opts.Disabled
bulkEnabled == ~opts.DisableBulk

\* c.codec.Encode and c.codec.Decode of the codec in Options.Codec
CodecEncode(v) ==
    IF opts.Codec = "json" THEN JSONEncode(v)
    ELSE IF opts.Codec = "refusing" THEN RefusingEncode(v)
    ELSE BytesEncode(v)
CodecDecode(b) == IF opts.Codec = "json" THEN JSONDecode(b) ELSE BytesDecode(b)

\* the goroutines calling the generation store directly
NumCallers == 3
Callers == 1..NumCallers

\* the goroutine NewLocalGenStore starts, next to the callers' goroutines
Sweeper == 0
Goroutines == Procs \cup Callers \cup {Sweeper}

Providers == {1, 2}

(***************************************************************************)
(* genstore.LocalGenStore, each operation under its lock.                  *)
(***************************************************************************)
ZeroTime == 0

\* a Lock that does not wait for anyone
LockUnguarded(st) == TRUE

\* s.mu.Lock() returns
CanLock(st) == st.writer = {} /\ st.readers = {}

\* s.mu.RLock() returns
CanRLock(st) == st.writer = {}

LocalSnapshot(g, k) == IF MapHas(g, k) THEN g[k].Gen ELSE 0

\* a Bump that refreshes the time of the entry and loses the increment
LocalBumpLost(g, k, t) ==
    MapPut(g, k, [Gen |-> LocalSnapshot(g, k), UpdatedAt |-> t])

\* e := s.gens[k], the zero value if k is missing
EntryOf(g, k) ==
    IF MapHas(g, k) THEN g[k] ELSE [Gen |-> 0, UpdatedAt |-> ZeroTime]

\* e.Gen++; e.UpdatedAt = now
Bumped(e, t) == [Gen |-> e.Gen + 1, UpdatedAt |-> t]

\* the write of LocalGenStore.Bump under s.mu, with the time t read before it
LocalBump(g, k, t) == MapPut(g, k, Bumped(EntryOf(g, k), t))

\* a loop of Cleanup that also deletes the keys bumped exactly at cutoff
PruneAtCutoff(g, cutoff) ==
    LET keep == {k \in DOMAIN g :
                   ~(g[k].UpdatedAt # ZeroTime /\ g[k].UpdatedAt <= cutoff)}
    IN [k \in keep |-> g[k]]

\* the loop of Cleanup: the keys last bumped before cutoff are deleted
Prune(g, cutoff) ==
    LET keep == {k \in DOMAIN g :
                   ~(g[k].UpdatedAt # ZeroTime /\ g[k].UpdatedAt < cutoff)}
    IN [k \in keep |-> g[k]]

(***************************************************************************)
(* genstore.RedisGenStore over a Redis keyspace of decimal strings.        *)
(***************************************************************************)
\* the longest decimal string the model parses
MaxDigits == 9

RECURSIVE FormatUint(_)
\* strconv.FormatUint(n, 10), as Redis stores a counter
FormatUint(n) ==
    IF n < 10 THEN <<48 + n>>
    ELSE FormatUint(n \div 10) \o <<48 + (n % 10)>>

RECURSIVE ParseDigits(_)
ParseDigits(s) ==
    IF Len(s) = 0 THEN 0
    ELSE 10 * ParseDigits(SubSeq(s, 1, Len(s) - 1)) + (s[Len(s)] - 48)

\* strconv.ParseUint(s, 10, 64), for the strings of at most MaxDigits digits
\* that the counters of the model produce
ParseUint(s) ==
    IF Len(s) = 0 \/ Len(s) > MaxDigits
       \/ (\E i \in 1..Len(s) : s[i] < 48 \/ s[i] > 57)
    THEN [err |-> TRUE, u |-> 0]
    ELSE [err |-> FALSE, u |-> ParseDigits(s)]

\* RedisGenStore.Snapshot: GET; a missing key is generation 0
RedisSnapshot(r, ns, storageKey) ==
    IF ~MapHas(r, RedisKey(ns, storageKey)) THEN [err |-> FALSE, u |-> 0]
    ELSE ParseUint(r[RedisKey(ns, storageKey)].val)

\* INCR of the Redis server: a missing key counts from 0 and is created
\* without a time to live; a key that exists keeps the one it has
RedisIncr(r, key) ==
    LET old == IF MapHas(r, key) THEN ParseUint(r[key].val).u ELSE 0
    IN MapPut(r, key, [val |-> FormatUint(old + 1),
                       ttl |-> MapHas(r, key) /\ r[key].ttl])

\* EXPIRE of the Redis server: a key that exists gets a time to live, a
\* missing key is left missing
RedisExpireCmd(r, key) ==
    IF MapHas(r, key) THEN MapPut(r, key, [r[key] EXCEPT !.ttl = TRUE]) ELSE r

\* the INCR of RedisGenStore.Bump, alone if ttl <= 0 and the first command
\* of the pipeline otherwise
RedisBump(r, ns, storageKey) == RedisIncr(r, RedisKey(ns, storageKey))

\* p.Expire(ctx, k, s.ttl), the second command of the pipeline of Bump
RedisBumpExpire(r, ns, storageKey) == RedisExpireCmd(r, RedisKey(ns, storageKey))

(***************************************************************************)
(* The GenStore the cache was built with.                                  *)
(***************************************************************************)
\* c.snapshotGen(ctx, storageKey) over the stores g and r: what Snapshot
\* answers, and 0 if it answers with an error
SnapshotIn(g, r, storageKey) ==
    IF opts.GenStore = "local" THEN LocalSnapshot(g, storageKey)
    ELSE IF RedisSnapshot(r, Namespace, storageKey).err THEN 0
    ELSE RedisSnapshot(r, Namespace, storageKey).u

GenSnapshot(storageKey) == SnapshotIn(gens, rdb, storageKey)

\* Snapshot and SnapshotMany of the LocalGenStore read under s.mu.RLock(),
\* which waits while a Bump, Cleanup or Close holds the lock
SnapshotReady == opts.GenStore = "local" => CanRLock(store)

\* Bump of the store the cache was built over takes two steps when the store
\* is the LocalGenStore (the clock is read, then the lock is taken) and when
\* it is the RedisGenStore with a ttl (INCR, then EXPIRE), and one step
\* (INCR) otherwise
BumpInTwoSteps == opts.GenStore = "local" \/ opts.ttl > 0

\* the first of the two steps of c.gen.Bump(ctx, storageKey):
\* LocalGenStore.Bump reads the clock, now := time.Now(); the INCR of the
\* pipeline of RedisGenStore.Bump is executed
GenBumpBegin(storageKey) ==
    /\ BumpInTwoSteps
    /\ IF opts.GenStore = "local"
       THEN UNCHANGED <<gens, rdb>>
       ELSE /\ rdb' = RedisBump(rdb, Namespace, storageKey)
            /\ UNCHANGED gens

\* the step c.gen.Bump(ctx, storageKey) ends with: LocalGenStore.Bump gets
\* s.mu.Lock(), writes the entry with the time t it had read and unlocks;
\* the EXPIRE of the pipeline of RedisGenStore.Bump is executed; the INCR of
\* a RedisGenStore without ttl is executed
GenBump(storageKey, t) ==
    IF opts.GenStore = "local"
    THEN /\ CanLock(store)
         /\ gens' = LocalBump(gens, storageKey, t)
         /\ UNCHANGED rdb
    ELSE /\ rdb' = IF opts.ttl > 0
                   THEN RedisBumpExpire(rdb, Namespace, storageKey)
                   ELSE RedisBump(rdb, Namespace, storageKey)
         /\ UNCHANGED gens

(***************************************************************************)
(* The value store (the provider contract, as the in-memory provider of    *)
(* the tests implements it).                                               *)
(***************************************************************************)
ProvOf(p) == opts.provOf[loc[p].r]

ProvHas(i, k) == MapHas(prov[i], k)
ProvSet(i, k, b) == prov' = [prov EXCEPT ![i] = MapPut(prov[i], k, b)]
ProvDel(i, k) == prov' = [prov EXCEPT ![i] = MapDel(prov[i], k)]

(***************************************************************************)
(* Calls and their results.                                                *)
(***************************************************************************)
\* coalesce(opts.DefaultTTL, 10*time.Minute), in minutes
defaultTTL == 10

\* The variables of a GetBulk or SetBulkWithGens call, kept while the calls of
\* Get and SetWithGen it makes run: op and phase say where the call is; keys,
\* vals, obsGens and ttl are its arguments; us, bk, items, gens, byKey,
\* genByKey, out, missing and tmp its locals, seedTTL the ttl it hands to
\* SetWithGen when it seeds; todo and rest the members it has
\* still to visit; calls, hooks, gets and sets what it has called and fired; g0
\* the generations invalidated when it began, had the members that had a
\* single entry then, and fresh0 the generations of the members if the value
\* store then held a bulk entry of exactly these members at their current
\* generations; used whether it answered from the bulk entry.
NoFrame == [r |-> 1, op |-> "", phase |-> "", keys |-> <<>>, vals |-> <<>>,
            obsGens |-> <<>>, ttl |-> 0, seedTTL |-> 0, us |-> <<>>, bk |-> "",
            raw |-> <<>>, items |-> <<>>, gens |-> <<>>,
            byKey |-> <<>>, genByKey |-> <<>>, out |-> <<>>, missing |-> <<>>,
            tmp |-> <<>>, todo |-> <<>>, rest |-> {}, reason |-> "",
            calls |-> <<>>, hooks |-> <<>>, gets |-> <<>>, sets |-> <<>>,
            g0 |-> <<>>, had |-> {}, fresh0 |-> <<>>, used |-> FALSE,
            dropped |-> <<>>]

NoLoc == [r |-> 1, key |-> "", task |-> "", order |-> "", fr |-> NoFrame,
          val |-> <<>>, obs |-> 0, raw |-> <<>>, dgen |-> 0, payload |-> <<>>,
          reason |-> "", bumped |-> 0, bumpErr |-> "",
          calls |-> <<>>, g0 |-> 0, stale0 |-> {}, cached0 |-> {},
          read |-> 0, m0 |-> 0, last0 |-> 0, old0 |-> {},
          t |-> 0, e |-> [Gen |-> 0, UpdatedAt |-> 0], prev |-> 0,
          ks |-> <<>>, out |-> <<>>, cutoff |-> 0, seen0 |-> <<>>,
          stopCh |-> "nil", ticker |-> "nil", hooks |-> <<>>,
          quiet0 |-> FALSE, skipped |-> FALSE, retention |-> 0]

\* what a call returned; a hit of Get also keeps what the Get went through
NoRes == [op |-> "none", key |-> "", ok |-> FALSE, v |-> <<>>, err |-> "", unwrap |-> <<>>, hooks |-> <<>>,
          dgen |-> 0, cur |-> 0, calls |-> <<>>, g0 |-> 0, stale0 |-> {},
          m0 |-> 0, last0 |-> 0, old0 |-> {}, gen |-> 0, prev |-> 0, out |-> <<>>, seen0 |-> <<>>,
          keys |-> <<>>, missing |-> <<>>, g0m |-> <<>>, had |-> {}, fresh0 |-> <<>>,
          used |-> FALSE, ttl |-> 0,
          task |-> "", wrote |-> <<>>, obs |-> 0, quiet0 |-> FALSE,
          skipped |-> FALSE,
          raw |-> <<>>, defect |-> "", dropped |-> <<>>,
          items |-> <<>>, gens |-> <<>>, gets |-> <<>>, sets |-> <<>>, bk |-> ""]

GetMiss == [NoRes EXCEPT !.op = "get"]
GetErr == [NoRes EXCEPT !.op = "get", !.err = "provider"]
SetNil == [NoRes EXCEPT !.op = "set", !.ok = TRUE]
\* a SetWithGen that returns nil where it met the error e
SetSwallowed(e) == [NoRes EXCEPT !.op = "set", !.ok = TRUE]
SetErr(e) == [NoRes EXCEPT !.op = "set", !.err = e]
InvNil == [NoRes EXCEPT !.op = "inv", !.ok = TRUE]

\* errors are named by their text; nil is the empty text
Nil == ""

\* &InvalidateError{Key: key, BumpErr: bumpErr, DelErr: delErr}
InvalidateError(key, bumpErr, delErr) ==
    [Key |-> key, BumpErr |-> bumpErr, DelErr |-> delErr]

\* (*InvalidateError).Unwrap: the causes that are not nil, the bump first
Unwrap(e) ==
    (IF e.BumpErr # Nil THEN <<e.BumpErr>> ELSE <<>>)
        \o (IF e.DelErr # Nil THEN <<e.DelErr>> ELSE <<>>)

\* Invalidate returning the InvalidateError e
InvErr(e) == [NoRes EXCEPT !.op = "inv", !.err = "invalidate", !.key = e.Key,
                           !.unwrap = Unwrap(e)]

\* the storage key of the call goroutine p executes
K(p) == singleKey(opts.nsOf[loc[p].r], loc[p].key)

\* the values held for user key k by any value store
CachedVals(k) ==
    {DecodeSingleStrict(prov[i][singleKey(Namespace, k)]).payload :
        i \in {j \in Providers : ProvHas(j, singleKey(Namespace, k))}}

\* where goroutine p continues when the call it executes returns r
After(p, r) ==
    IF loc[p].task = "load" /\ r.op = "get" /\ ~r.ok
    THEN (IF loc[p].order = "snap_first" THEN "load_snap" ELSE "load_read")
    ELSE IF loc[p].task = "warm" /\ r.op = "set" /\ r.err = ""
    THEN "get_fetch"
    ELSE IF p = Sweeper THEN "sw_eval"
    ELSE "idle"

(***************************************************************************)
(* The calls GetBulk and SetBulkWithGens make of Get and SetWithGen.       *)
(***************************************************************************)
\* the bulk call of goroutine p returns r
Finish(p, r) ==
    /\ pc' = [pc EXCEPT ![p] = "idle"]
    /\ loc' = [loc EXCEPT ![p] = NoLoc]
    /\ res' = [res EXCEPT ![p] = r]

\* the bulk call of goroutine p goes on at label with the locals l
Nest(p, label, l) ==
    /\ pc' = [pc EXCEPT ![p] = label]
    /\ loc' = [loc EXCEPT ![p] = l]
    /\ res' = [res EXCEPT ![p] = NoRes]

\* the locals of a bulk call between the calls it makes
AtBulk(f) == [NoLoc EXCEPT !.r = f.r, !.task = "bulk", !.fr = f]

\* SetWithGen: if ttl == 0 { ttl = c.defaultTTL }
EffectiveTTL(ttl) == IF ttl = 0 THEN defaultTTL ELSE ttl

\* the locals of c.SetWithGen(ctx, k, v, obs, ttl) called by the bulk call f
NestedSet(f, k, v, obs, ttl) ==
    [NoLoc EXCEPT !.r = f.r, !.key = k, !.val = v, !.obs = obs, !.task = "bulk",
                  !.fr = [f EXCEPT !.sets = Append(f.sets,
                                                   <<k, obs, EffectiveTTL(ttl)>>)]]

\* the locals of c.Get(ctx, k) called by the bulk call f
NestedGet(f, k) ==
    [NoLoc EXCEPT !.r = f.r, !.key = k, !.task = "bulk",
                  !.fr = [f EXCEPT !.gets = Append(f.gets, k)]]

\* what GetBulk returns: out, missing, nil (and what the call went through)
GetBulkResult(f) ==
    [NoRes EXCEPT !.op = "getbulk", !.ok = TRUE, !.keys = f.keys, !.bk = f.bk,
                  !.out = f.out, !.missing = f.missing, !.used = f.used,
                  !.items = f.items, !.gens = f.gens, !.g0m = f.g0,
                  !.had = f.had, !.fresh0 = f.fresh0,
                  !.calls = f.calls, !.hooks = f.hooks,
                  !.gets = f.gets, !.sets = f.sets, !.dropped = f.dropped]

\* what SetBulkWithGens returns: err (nil is the empty text); out are the
\* items, gens the observedGens, ttl the ttl of the call and seen0 the
\* generation each Snapshot of the verifying loop returned
SetBulkResult(f, err) ==
    [NoRes EXCEPT !.op = "setbulk", !.ok = (err = ""), !.err = err,
                  !.keys = f.keys, !.bk = f.bk, !.out = f.vals, !.gens = f.obsGens,
                  !.seen0 = f.gens, !.ttl = f.ttl,
                  !.calls = f.calls, !.hooks = f.hooks, !.sets = f.sets,
                  !.dropped = f.dropped]

\* observedGens[k] of Go: the zero value for a key the map does not hold
Observed(observedGens, k) ==
    IF MapHas(observedGens, k) THEN observedGens[k] ELSE 0

\* GetBulk warms the single entries: for every unique key decoded from the
\* bulk entry, c.SetWithGen(ctx, k, v, genByKey[k], c.defaultTTL); then it
\* returns out and missing
WarmNext(p, f) ==
    IF f.todo = <<>> THEN Finish(p, GetBulkResult(f))
    ELSE Nest(p, "set_snap",
              NestedSet(f, Head(f.todo), f.byKey[Head(f.todo)],
                        f.genByKey[Head(f.todo)], defaultTTL))

\* a memoizedSingles that lists every missed key once, in sorted order
SinglesNextUnique(p, f) ==
    IF f.todo = <<>>
    THEN Finish(p, GetBulkResult(
             [f EXCEPT !.out = [k \in {x \in Range(f.keys) : f.tmp[x].ok}
                                   |-> f.tmp[k].v],
                       !.missing = SelectSeq(uniqSorted(f.keys), LAMBDA k : ~f.tmp[k].ok)]))
    ELSE Nest(p, "get_fetch", NestedGet(f, Head(f.todo)))

\* memoizedSingles: one c.Get per unique key, then out and missing in the
\* caller's order, duplicates kept
SinglesNext(p, f) ==
    IF f.todo = <<>>
    THEN Finish(p, GetBulkResult(
             [f EXCEPT !.out = [k \in {x \in Range(f.keys) : f.tmp[x].ok}
                                   |-> f.tmp[k].v],
                       !.missing = SelectSeq(f.keys, LAMBDA k : ~f.tmp[k].ok)]))
    ELSE Nest(p, "get_fetch", NestedGet(f, Head(f.todo)))

\* SetBulkWithGens seeds the single entries: for k, v := range items (in any
\* order), c.SetWithGen(ctx, k, v, observedGens[k], ttl); then it returns nil
SeedNext(p, f) ==
    IF f.rest = {} THEN Finish(p, SetBulkResult(f, ""))
    ELSE \E k \in f.rest :
            Nest(p, "set_snap",
                 NestedSet([f EXCEPT !.rest = f.rest \ {k}],
                           k, f.vals[k], Observed(f.obsGens, k), f.seedTTL))

\* the call of Get or SetWithGen made by the bulk call of goroutine p returns r
\* (`_ = c.SetWithGen(...)`: the frame keeps in dropped the error discarded,
\* and the errors the call itself discarded)
Resume(p, r) ==
    LET f == [loc[p].fr EXCEPT !.calls = loc[p].fr.calls \o r.calls,
                               !.hooks = loc[p].fr.hooks \o r.hooks,
                               !.dropped = IF r.op = "set" /\ r.err # ""
                                           THEN Append(loc[p].fr.dropped, r.err)
                                           ELSE loc[p].fr.dropped \o r.dropped]
    IN IF f.phase = "warm" THEN WarmNext(p, [f EXCEPT !.todo = Tail(f.todo)])
       ELSE IF f.phase = "singles"
       THEN SinglesNext(p, [f EXCEPT !.todo = Tail(f.todo),
                                     !.tmp = MapPut(f.tmp, Head(f.todo),
                                                    [v |-> r.v, ok |-> r.ok])])
       ELSE SeedNext(p, f)

\* the SetWithGen of a caller that goes on to Get returned r having called
\* the snapshot only: the write was skipped
SkippedWrite(p, r) ==
    IF r.op = "set" THEN r.calls = <<"gen.Snapshot">> ELSE loc[p].skipped

\* the call of goroutine p returns r; its locals die with it
Return(p, r) ==
    IF loc[p].task = "bulk" THEN Resume(p, r)
    ELSE /\ pc' = [pc EXCEPT ![p] = After(p, r)]
         /\ res' = [res EXCEPT ![p] =
                      IF loc[p].task = "warm"
                      THEN [r EXCEPT !.task = "warm", !.wrote = loc[p].val,
                                     !.obs = loc[p].obs,
                                     !.quiet0 = loc[p].quiet0,
                                     !.skipped = SkippedWrite(p, r)]
                      ELSE r]
         /\ loc' = [loc EXCEPT ![p] =
                      IF After(p, r) = "idle" THEN NoLoc
                      ELSE IF loc[p].task = "warm"
                      THEN [NoLoc EXCEPT !.r = loc[p].r, !.key = loc[p].key,
                                         !.task = "warm", !.val = loc[p].val,
                                         !.obs = loc[p].obs,
                                         !.quiet0 = loc[p].quiet0,
                                         !.skipped = SkippedWrite(p, r)]
                      ELSE [NoLoc EXCEPT !.r = loc[p].r, !.key = loc[p].key,
                                         !.task = loc[p].task,
                                         !.order = loc[p].order]]

\* goroutine p goes on to label with the locals l
Goto(p, label, l) ==
    /\ pc' = [pc EXCEPT ![p] = label]
    /\ loc' = [loc EXCEPT ![p] = l]
    /\ UNCHANGED res

Called(p, name) == Append(loc[p].calls, name)

\* One call of a method of Hooks: its name and its arguments (key is the
\* storage key, user key or namespace the hook is given, n its count).
Hook(name, key, n, reason) ==
    [name |-> name, key |-> key, n |-> n, reason |-> reason]

\* the hooks the call of goroutine p has fired, and then h
Emitted(p, h) == Append(loc[p].hooks, h)

\* what c.gen.Snapshot(ctx, storageKey) answers: a generation, or an error
Answered(g) == [err |-> FALSE, g |-> g]
Failed == [err |-> TRUE, g |-> 0]

\* c.snapshotGen(ctx, storageKey) given the answer s of the generation store:
\* the generation, and 0 on an error
snapshotGen(s) == IF s.err THEN 0 ELSE s.g

\* ... and the hooks fired by then: c.hooks.GenSnapshotError(1, err) on an error
SnapshotHooks(p, s) ==
    IF s.err THEN Emitted(p, Hook("GenSnapshotError", "", 1, "")) ELSE loc[p].hooks

(***************************************************************************)
(* cache.Get                                                               *)
(***************************************************************************)
StartGet(p, r, k) ==
    /\ pc[p] = "idle"
    /\ IF ~enabled THEN Finish(p, GetMiss)
       ELSE Nest(p, "get_fetch",
                 [NoLoc EXCEPT !.r = r, !.key = k,
                               !.g0 = hist.invDone[k],
                               !.stale0 = hist.preInv[k],
                               !.last0 = hist.invLast[k],
                               !.old0 = hist.old])
    /\ UNCHANGED <<opts, store, gens, rdb, now, prov, db, hist>>

\* raw, ok, err := c.provider.Get(ctx, k); wire.DecodeSingle(raw), the
\* DecodeSingle with strict framing of the wire package the cache is built with
GetFetch(p) ==
    /\ pc[p] = "get_fetch"
    /\ IF ~ProvHas(ProvOf(p), K(p))
       THEN Return(p, [GetMiss EXCEPT !.calls = Called(p, "provider.Get")])
       ELSE LET raw == prov[ProvOf(p)][K(p)]
                d   == DecodeSingleStrict(raw)
            IN IF d.err
               THEN Goto(p, "get_heal",
                         [loc[p] EXCEPT !.calls = Called(p, "provider.Get"),
                                        !.raw = raw, !.reason = "corrupt"])
               ELSE Goto(p, "get_snap",
                         [loc[p] EXCEPT !.calls = Called(p, "provider.Get"),
                                        !.raw = raw, !.dgen = d.gen,
                                        !.payload = d.payload])
    /\ UNCHANGED <<opts, store, gens, rdb, now, prov, db, hist>>

\* the provider's Get returns a transport error
GetFetchErr(p) ==
    /\ pc[p] = "get_fetch"
    /\ Return(p, [GetErr EXCEPT !.calls = Called(p, "provider.Get")])
    /\ UNCHANGED <<opts, store, gens, rdb, now, prov, db, hist>>

\* a validation that only rejects entries newer than the current generation
GenNotNewer(dgen, cur) == dgen <= cur

\* the validation of Get: the entry is used only if this holds
GenMatches(dgen, cur) == dgen = cur

\* a Get that decodes and returns the entry it fetched without comparing
GetUnvalidated(p, s) ==
    /\ pc[p] = "get_snap"
    /\ Return(p, [NoRes EXCEPT !.op = "get", !.ok = TRUE,
                        !.v = CodecDecode(loc[p].payload).v,
                        !.dgen = loc[p].dgen, !.cur = snapshotGen(s),
                        !.calls = Called(p, "gen.Snapshot"),
                        !.g0 = loc[p].g0, !.stale0 = loc[p].stale0,
                                   !.m0 = loc[p].m0,
                                   !.last0 = loc[p].last0,
                                   !.old0 = loc[p].old0])
    /\ UNCHANGED <<opts, store, gens, rdb, now, prov, db, hist>>

\* the rest of Get once the generation store has answered s to c.snapshotGen
GetValidate(p, s) ==
    /\ pc[p] = "get_snap"
    /\ IF ~GenMatches(loc[p].dgen, snapshotGen(s))
       THEN Goto(p, "get_heal",
                 [loc[p] EXCEPT !.calls = Called(p, "gen.Snapshot"),
                                !.hooks = SnapshotHooks(p, s),
                                !.reason = "gen_mismatch"])
       ELSE LET v == CodecDecode(loc[p].payload)
            IN IF v.err
               THEN Goto(p, "get_heal",
                         [loc[p] EXCEPT !.calls = Called(p, "gen.Snapshot"),
                                        !.hooks = SnapshotHooks(p, s),
                                        !.reason = "value_decode"])
               ELSE Return(p, [NoRes EXCEPT !.op = "get", !.ok = TRUE, !.v = v.v,
                                   !.dgen = loc[p].dgen, !.cur = snapshotGen(s),
                                   !.calls = Called(p, "gen.Snapshot"),
                                   !.hooks = SnapshotHooks(p, s),
                                   !.g0 = loc[p].g0, !.stale0 = loc[p].stale0,
                                   !.m0 = loc[p].m0,
                                   !.last0 = loc[p].last0,
                                   !.old0 = loc[p].old0])
    /\ UNCHANGED <<opts, store, gens, rdb, now, prov, db, hist>>

\* c.snapshotGen: the generation store answers
GetSnap(p) ==
    /\ SnapshotReady
    /\ GetValidate(p, Answered(GenSnapshot(K(p))))

\* c.snapshotGen: the generation store fails, the current generation is taken as 0
GetSnapErr(p) == GetValidate(p, Failed)

\* the hooks of a Get that returns after its self-heal
Healed(p) == Emitted(p, Hook("SelfHealSingle", K(p), 0, loc[p].reason))

\* a Get that returns from its self-heal without deleting
GetHealSkipped(p) ==
    /\ pc[p] = "get_heal"
    /\ Return(p, [GetMiss EXCEPT !.calls = Called(p, "provider.Del"),
                                !.hooks = Healed(p)])
    /\ UNCHANGED <<opts, store, gens, rdb, now, prov, db, hist>>

\* _ = c.provider.Del(ctx, k); c.hooks.SelfHealSingle(k, reason); miss
GetHeal(p) ==
    /\ pc[p] = "get_heal"
    /\ ProvDel(ProvOf(p), K(p))
    /\ Return(p, [GetMiss EXCEPT !.calls = Called(p, "provider.Del"),
                                !.hooks = Healed(p), !.g0 = loc[p].g0])
    /\ UNCHANGED <<opts, store, gens, rdb, now, db, hist>>

\* the self-heal delete fails: the error is discarded (the result keeps it
\* in dropped) and the entry stays
GetHealErr(p) ==
    /\ pc[p] = "get_heal"
    /\ Return(p, [GetMiss EXCEPT !.calls = Called(p, "provider.Del"),
                                !.hooks = Healed(p), !.g0 = loc[p].g0,
                                !.dropped = <<"del failed">>])
    /\ UNCHANGED <<opts, store, gens, rdb, now, prov, db, hist>>

(***************************************************************************)
(* cache.SetWithGen                                                        *)
(***************************************************************************)
\* The value a client writes names the call that wrote it: the number of the
\* call, which no other call carries, and the generation the caller observed.
WriteId(v) == v[1]
WriteObs(v) == v[2]

StartSet(p, r, k, obs) ==
    /\ pc[p] = "idle"
    /\ hist.nw < MaxWrites
    /\ IF ~enabled THEN Finish(p, SetNil)
       ELSE Nest(p, "set_snap",
                 [NoLoc EXCEPT !.r = r, !.key = k, !.obs = obs,
                               !.val = <<hist.nw + 1, obs>>])
    /\ hist' = [hist EXCEPT !.nw = hist.nw + 1]
    /\ UNCHANGED <<opts, store, gens, rdb, now, prov, db>>

\* a writer that observes the generation itself: obs := c.SnapshotGen(k)
StartObserve(p, r, k) ==
    /\ pc[p] = "idle"
    /\ hist.nw < MaxWrites
    /\ SnapshotReady
    /\ pc' = [pc EXCEPT ![p] = "observed"]
    /\ loc' = [loc EXCEPT ![p] =
                 [NoLoc EXCEPT !.r = r, !.key = k,
                               !.obs = GenSnapshot(singleKey(Namespace, k)),
                               !.val = <<hist.nw + 1,
                                         GenSnapshot(singleKey(Namespace, k))>>]]
    /\ res' = [res EXCEPT ![p] = NoRes]
    /\ hist' = [hist EXCEPT !.nw = hist.nw + 1]
    /\ UNCHANGED <<opts, store, gens, rdb, now, prov, db>>

\* ... and later calls c.SetWithGen(ctx, k, v, obs, 0)
\* a caller that warms k as TestSingleCASFlow does: obs := SnapshotGen(k), then
\* SetWithGen(k, v, obs, 0), then Get(k); quiet0 says that no Invalidate of k
\* stood between its Bump and its Del when the snapshot was taken
StartWarm(p, r, k) ==
    /\ pc[p] = "idle"
    /\ hist.nw < MaxWrites
    /\ SnapshotReady
    /\ Nest(p, "observed",
            [NoLoc EXCEPT !.r = r, !.key = k, !.task = "warm",
                          !.obs = GenSnapshot(singleKey(Namespace, k)),
                          !.val = <<hist.nw + 1,
                                    GenSnapshot(singleKey(Namespace, k))>>,
                          !.quiet0 = \A q \in Procs :
                                        ~(pc[q] = "inv_del" /\ loc[q].key = k)])
    /\ hist' = [hist EXCEPT !.nw = hist.nw + 1]
    /\ UNCHANGED <<opts, store, gens, rdb, now, prov, db>>

SetObserved(p) ==
    /\ pc[p] = "observed"
    /\ Goto(p, "set_snap", loc[p])
    /\ UNCHANGED <<opts, store, gens, rdb, now, prov, db, hist>>

\* a SetWithGen that writes whatever the current generation is
CasAlways(cur, observedGen) == TRUE

\* the CAS test of SetWithGen: the write goes on only if this holds
\* a variant that accepts a write only on a key never invalidated
CasOnlyFresh(cur, observedGen) == cur = observedGen /\ cur = 0

CasOk(cur, observedGen) == cur = observedGen

\* the rest of the first half of SetWithGen once the generation store has
\* answered s to c.snapshotGen
SetCheck(p, s) ==
    /\ pc[p] = "set_snap"
    /\ IF ~CasOk(snapshotGen(s), loc[p].obs)
       THEN Return(p, [SetNil EXCEPT !.calls = Called(p, "gen.Snapshot"),
                                    !.hooks = SnapshotHooks(p, s)])
       ELSE LET payload == CodecEncode(loc[p].val)
            IN IF payload.err
               THEN Return(p, [SetErr("codec") EXCEPT
                                   !.calls = Called(p, "gen.Snapshot"),
                                   !.hooks = SnapshotHooks(p, s)])
               ELSE Goto(p, "set_store",
                         [loc[p] EXCEPT !.calls = Called(p, "gen.Snapshot"),
                                        !.hooks = SnapshotHooks(p, s),
                                        !.raw = EncodeSingle(loc[p].obs,
                                                             payload.bytes)])
    /\ UNCHANGED <<opts, store, gens, rdb, now, prov, db, hist>>

SetSnap(p) ==
    /\ SnapshotReady
    /\ SetCheck(p, Answered(GenSnapshot(K(p))))

SetSnapErr(p) == SetCheck(p, Failed)

\* ok, err := c.provider.Set(ctx, k, wireb, cost, ttl) storing the entry
SetStore(p) ==
    /\ pc[p] = "set_store"
    /\ ProvSet(ProvOf(p), K(p), loc[p].raw)
    /\ Return(p, [SetNil EXCEPT !.calls = Called(p, "provider.Set"),
                                !.hooks = loc[p].hooks])
    /\ UNCHANGED <<opts, store, gens, rdb, now, db, hist>>

\* the provider's Set returns a transport error: nothing is stored
SetStoreErr(p) ==
    /\ pc[p] = "set_store"
    /\ Return(p, [SetErr("provider") EXCEPT !.calls = Called(p, "provider.Set"),
                                           !.hooks = loc[p].hooks])
    /\ UNCHANGED <<opts, store, gens, rdb, now, prov, db, hist>>

\* the provider refuses the write under pressure (ok = false, err = nil):
\* c.hooks.ProviderSetRejected(k, false), and nil is returned
SetStoreRejected(p) ==
    /\ pc[p] = "set_store"
    /\ Return(p, [SetNil EXCEPT !.calls = Called(p, "provider.Set"),
                                !.hooks = Emitted(p, Hook("ProviderSetRejected",
                                                          K(p), 0, "single"))])
    /\ UNCHANGED <<opts, store, gens, rdb, now, prov, db, hist>>

(***************************************************************************)
(* cache.Invalidate                                                        *)
(***************************************************************************)
\* the Invalidate calls of key k that have not bumped the generation yet
Bumping(k) ==
    {q \in Procs : /\ loc[q].key = k
                   /\ \/ pc[q] = "inv_bump"
                      \/ pc[q] = "inv_bump_end" /\ opts.GenStore = "local"}

StartInv(p, r, k) ==
    /\ pc[p] = "idle"
    /\ GenSnapshot(singleKey(opts.nsOf[r], k)) + Cardinality(Bumping(k)) < MaxGen
    /\ IF ~enabled THEN Finish(p, InvNil)
       ELSE Nest(p, "inv_bump",
                 [NoLoc EXCEPT !.r = r, !.key = k,
                               !.cached0 = IF "cached" \in hist.watch
                                           THEN CachedVals(k) ELSE {}])
    /\ UNCHANGED <<opts, store, gens, rdb, now, prov, db, hist>>

\* where an Invalidate is before the step its Bump ends with
BumpEnd == IF BumpInTwoSteps THEN "inv_bump_end" ELSE "inv_bump"

\* _, bumpErr := c.bumpGen(ctx, k) begins, over a store whose Bump takes two
\* steps: the clock is read, or the INCR is executed and answers
InvBumpBegin(p) ==
    /\ pc[p] = "inv_bump"
    /\ GenBumpBegin(K(p))
    /\ Goto(p, "inv_bump_end",
            [loc[p] EXCEPT !.t = now,
                           !.bumped = SnapshotIn(gens', rdb', K(p))])
    /\ UNCHANGED <<opts, store, now, prov, db, hist>>

\* an Invalidate that goes on to its Del with the generation as it was
InvBumpSkipped(p) ==
    /\ pc[p] = BumpEnd
    /\ Goto(p, "inv_del",
            [loc[p] EXCEPT !.calls = Called(p, "gen.Bump"),
                           !.bumped = GenSnapshot(K(p)) + 1])
    /\ UNCHANGED <<opts, store, gens, rdb, now, prov, db, hist>>

\* c.bumpGen(ctx, k) ends, the store answering: over the local store the
\* generation it returns is the one written, over Redis the one INCR answered
InvBump(p) ==
    /\ pc[p] = BumpEnd
    /\ GenBump(K(p), loc[p].t)
    /\ Goto(p, "inv_del",
            [loc[p] EXCEPT !.calls = Called(p, "gen.Bump"),
                           !.bumped = IF opts.GenStore = "redis" /\ opts.ttl > 0
                                      THEN loc[p].bumped
                                      ELSE SnapshotIn(gens', rdb', K(p))])
    /\ UNCHANGED <<opts, store, now, prov, db, hist>>

\* the Bump fails: c.hooks.GenBumpError(storageKey, err); the generation stays
InvBumpErr(p) ==
    /\ pc[p] = "inv_bump"
    /\ Goto(p, "inv_del",
            [loc[p] EXCEPT !.calls = Called(p, "gen.Bump"),
                           !.hooks = Emitted(p, Hook("GenBumpError", K(p), 0, "")),
                           !.bumpErr = "bump failed"])
    /\ UNCHANGED <<opts, store, gens, rdb, now, prov, db, hist>>

\* what history keeps of an Invalidate of goroutine p that returns nil
Invalidated(p) ==
    [hist EXCEPT !.invDone[loc[p].key] =
                     Max(hist.invDone[loc[p].key], loc[p].bumped),
                 !.preInv[loc[p].key] =
                     hist.preInv[loc[p].key] \cup loc[p].cached0,
                 !.mutDone[loc[p].key] =
                     IF loc[p].task = "mutate"
                     THEN Max(hist.mutDone[loc[p].key], loc[p].obs)
                     ELSE hist.mutDone[loc[p].key],
                 !.invLast[loc[p].key] =
                     IF "last" \in hist.watch THEN loc[p].bumped
                     ELSE hist.invLast[loc[p].key],
                 !.old = IF "last" \in hist.watch THEN 1..hist.nw ELSE hist.old]

\* an Invalidate that reports a failure of either call
EitherFailed(bumpErr, delErr) == bumpErr # Nil \/ delErr # Nil

\* only the coupled failure is surfaced
BothFailed(bumpErr, delErr) == bumpErr # Nil /\ delErr # Nil

\* the end of Invalidate once the provider's Del has answered delErr
InvFinish(p, delErr) ==
    IF BothFailed(loc[p].bumpErr, delErr)
    THEN /\ Return(p, [InvErr(InvalidateError(loc[p].key, loc[p].bumpErr, delErr))
                          EXCEPT !.calls = Called(p, "provider.Del"),
                                 !.hooks = Emitted(p, Hook("InvalidateOutage",
                                                           loc[p].key, 0, ""))])
         /\ UNCHANGED hist
    ELSE /\ Return(p, [InvNil EXCEPT !.calls = Called(p, "provider.Del"),
                                    !.hooks = loc[p].hooks])
         /\ hist' = Invalidated(p)

\* delErr := c.provider.Del(ctx, k) succeeds
InvDel(p) ==
    /\ pc[p] = "inv_del"
    /\ ProvDel(ProvOf(p), K(p))
    /\ InvFinish(p, Nil)
    /\ UNCHANGED <<opts, store, gens, rdb, now, db>>

\* the Del fails
InvDelErr(p) ==
    /\ pc[p] = "inv_del"
    /\ InvFinish(p, "del failed")
    /\ UNCHANGED <<opts, store, gens, rdb, now, prov, db>>

(***************************************************************************)
(* cache.GetBulk                                                           *)
(***************************************************************************)
\* the item of key k that comes last in items
LastOf(items, k) ==
    items[CHOOSE i \in 1..Len(items) :
              /\ items[i].Key = k
              /\ \A j \in (i + 1)..Len(items) : items[j].Key # k]

ItemKeys(items) == {items[i].Key : i \in 1..Len(items)}

\* itemGen of bulkValid: duplicates in the stored items, the last wins
ItemGen(items) == [k \in ItemKeys(items) |-> LastOf(items, k).Gen]

\* the items of GetBulk whose payload the codec decodes
Decodable(items) == SelectSeq(items, LAMBDA it : ~CodecDecode(it.Payload).err)

\* byKey and genByKey of GetBulk
ByKey(items) ==
    [k \in ItemKeys(Decodable(items)) |->
        CodecDecode(LastOf(Decodable(items), k).Payload).v]
GenByKey(items) ==
    [k \in ItemKeys(Decodable(items)) |-> LastOf(Decodable(items), k).Gen]

\* a validation that looks at the first requested key only
bulkValidFirst(ns, sortedRequested, items, g) ==
    \A i \in 1..Len(sortedRequested) :
        i = 1 => /\ MapHas(ItemGen(items), sortedRequested[i])
                 /\ ItemGen(items)[sortedRequested[i]]
                      = g[singleKey(ns, sortedRequested[i])]

\* the loop of c.bulkValid once SnapshotMany has answered the generations g:
\* every requested key is in the entry, with the generation g has for it
\* a variant that asks for an item per requested key and compares no generation
bulkValidMembers(ns, sortedRequested, items, g) ==
    \A i \in 1..Len(sortedRequested) :
        MapHas(ItemGen(items), sortedRequested[i])

bulkValid(ns, sortedRequested, items, g) ==
    \A i \in 1..Len(sortedRequested) :
        /\ MapHas(ItemGen(items), sortedRequested[i])
        /\ ItemGen(items)[sortedRequested[i]]
             = g[singleKey(ns, sortedRequested[i])]

\* the storage keys c.bulkValid hands to SnapshotMany
StorageKeys(sortedRequested) ==
    {singleKey(Namespace, sortedRequested[i]) : i \in 1..Len(sortedRequested)}

\* the frame of a bulk call after the call named name
FrameCalled(f, name) == [f EXCEPT !.calls = Append(f.calls, name)]

\* the generations of the members ks, if the value store i holds under their
\* bulk key an entry with an item of the current generation for each of them
\* and no other item; the empty map otherwise
FreshEntry(i, ks) ==
    LET bk == bulkKeySorted(Namespace, SelectSeq(KeyOrder, LAMBDA k : k \in ks))
        d  == IF ProvHas(i, bk) THEN DecodeBulkStrict(prov[i][bk]) ELSE CorruptBulk
    IN IF /\ ~d.err
          /\ {d.items[j].Key : j \in 1..Len(d.items)} = ks
          /\ \A j \in 1..Len(d.items) :
                d.items[j].Gen = GenSnapshot(singleKey(Namespace, d.items[j].Key))
       THEN [k \in ks |-> GenSnapshot(singleKey(Namespace, k))]
       ELSE <<>>

StartGetBulk(p, r, keys) ==
    /\ pc[p] = "idle"
    /\ LET f == [NoFrame EXCEPT !.r = r, !.op = "getbulk", !.keys = keys,
                                !.g0 = [k \in Range(keys) |-> hist.invDone[k]],
                                !.fresh0 = FreshEntry(opts.provOf[r], Range(keys)),
                                !.had = {k \in Range(keys) :
                                           ProvHas(opts.provOf[r],
                                                   singleKey(Namespace, k))}]
       IN IF ~enabled
          THEN Finish(p, GetBulkResult([f EXCEPT !.missing = keys]))
          ELSE IF Len(keys) = 0
          THEN Finish(p, GetBulkResult(f))
          ELSE IF ~bulkEnabled
          THEN SinglesNext(p, [f EXCEPT !.phase = "singles",
                                        !.todo = uniqSorted(keys)])
          ELSE Nest(p, "gb_fetch",
                    AtBulk([f EXCEPT !.us = uniqSorted(keys),
                                     !.bk = bulkKeySorted(Namespace,
                                                          uniqSorted(keys))]))
    /\ UNCHANGED <<opts, store, gens, rdb, now, prov, db, hist>>

\* raw, ok, err := c.provider.Get(ctx, bk); items, err := wire.DecodeBulk(raw),
\* the DecodeBulk with strict framing and a capped allocation of the wire
\* package the cache is built with
GbFetch(p) ==
    /\ pc[p] = "gb_fetch"
    /\ LET f == FrameCalled(loc[p].fr, "bulk.provider.Get")
       IN IF ~ProvHas(ProvOf(p), f.bk)
          THEN SinglesNext(p, [f EXCEPT !.phase = "singles", !.todo = f.us])
          ELSE LET raw == prov[ProvOf(p)][f.bk]
                   d   == DecodeBulkStrict(raw)
               IN IF d.err
                  THEN Nest(p, "gb_del",
                            AtBulk([f EXCEPT !.raw = raw,
                                             !.reason = "decode_error"]))
                  ELSE Nest(p, "gb_valid",
                            AtBulk([f EXCEPT !.raw = raw, !.items = d.items]))
    /\ UNCHANGED <<opts, store, gens, rdb, now, prov, db, hist>>

\* a GetBulk that rejects the bulk entry when its fetch failed
GbFetchErrRejects(p) ==
    /\ pc[p] = "gb_fetch"
    /\ LET f == FrameCalled(loc[p].fr, "bulk.provider.Get")
       IN Nest(p, "gb_del", AtBulk([f EXCEPT !.reason = "decode_error"]))
    /\ UNCHANGED <<opts, store, gens, rdb, now, prov, db, hist>>

\* the provider's Get of the bulk entry returns a transport error
GbFetchErr(p) ==
    /\ pc[p] = "gb_fetch"
    /\ LET f == FrameCalled(loc[p].fr, "bulk.provider.Get")
       IN SinglesNext(p, [f EXCEPT !.phase = "singles", !.todo = f.us])
    /\ UNCHANGED <<opts, store, gens, rdb, now, prov, db, hist>>

\* the rest of the bulk hit of GetBulk once SnapshotMany has answered s, a
\* map of generations or an error
GbValidate(p, s) ==
    /\ pc[p] = "gb_valid"
    /\ LET f == FrameCalled(loc[p].fr, "gen.SnapshotMany")
           byKey == ByKey(f.items)
       IN IF ~s.err /\ bulkValid(Namespace, f.us, f.items, s.g)
          THEN WarmNext(p,
                   [f EXCEPT !.gens = s.g, !.used = TRUE, !.phase = "warm",
                             !.byKey = byKey, !.genByKey = GenByKey(f.items),
                             !.out = [k \in Range(f.keys) \cap DOMAIN byKey
                                         |-> byKey[k]],
                             !.missing = SelectSeq(f.keys,
                                             LAMBDA k : ~MapHas(byKey, k)),
                             !.todo = SelectSeq(f.us,
                                          LAMBDA k : MapHas(byKey, k))])
          ELSE Nest(p, "gb_del",
                    AtBulk([f EXCEPT !.gens = s.g,
                                     !.reason = "invalid_or_stale",
                                     !.hooks =
                                         IF s.err
                                         THEN Append(f.hooks,
                                                  Hook("GenSnapshotError", "",
                                                       Len(f.us), ""))
                                         ELSE f.hooks]))
    /\ UNCHANGED <<opts, store, gens, rdb, now, prov, db, hist>>

\* gens, err := c.gen.SnapshotMany(ctx, storage): one batched read
GbValid(p) ==
    /\ SnapshotReady
    /\ GbValidate(p, Answered([sk \in StorageKeys(loc[p].fr.us) |-> GenSnapshot(sk)]))

\* a validation that takes every generation as 0 when SnapshotMany fails
GbValidErrAsZero(p) ==
    GbValidate(p, Answered([sk \in StorageKeys(loc[p].fr.us) |-> 0]))

\* SnapshotMany fails
GbValidErr(p) == GbValidate(p, [err |-> TRUE, g |-> <<>>])

\* c.hooks.BulkRejected(c.ns, len(us), reason), and on to memoizedSingles;
\* delErr is what the Del before it returned and GetBulk discarded
BulkRejectedToSingles(p, delErr) ==
    LET f == FrameCalled(loc[p].fr, "bulk.provider.Del")
    IN SinglesNext(p, [f EXCEPT !.phase = "singles", !.todo = f.us,
                                !.dropped = f.dropped \o delErr,
                                !.hooks = Append(f.hooks,
                                              Hook("BulkRejected", Namespace,
                                                   Len(f.us), f.reason))])

\* a GetBulk that leaves the entry it rejected in the provider
GbDelSkipped(p) ==
    /\ pc[p] = "gb_del"
    /\ BulkRejectedToSingles(p, <<>>)
    /\ UNCHANGED <<opts, store, gens, rdb, now, prov, db, hist>>

\* _ = c.provider.Del(ctx, bk)
GbDel(p) ==
    /\ pc[p] = "gb_del"
    /\ ProvDel(ProvOf(p), loc[p].fr.bk)
    /\ BulkRejectedToSingles(p, <<>>)
    /\ UNCHANGED <<opts, store, gens, rdb, now, db, hist>>

\* the Del of the bulk entry fails: the error is discarded (the frame keeps
\* it in dropped) and the entry stays
GbDelErr(p) ==
    /\ pc[p] = "gb_del"
    /\ BulkRejectedToSingles(p, <<"bulk del failed">>)
    /\ UNCHANGED <<opts, store, gens, rdb, now, prov, db, hist>>

(***************************************************************************)
(* cache.SetBulkWithGens                                                   *)
(***************************************************************************)
\* a check that never finds a mismatch
NeverMismatch(observedGens, k, cur) == FALSE

\* !ok || c.snapshotGen(ctx, kk) != obs
GenMismatch(observedGens, k, cur) ==
    ~MapHas(observedGens, k) \/ cur # observedGens[k]

\* the members SetBulkWithGens seeds: those with an observed generation
Seedable(f) == {k \in DOMAIN f.vals : MapHas(f.obsGens, k)}

\* The items of a call are named as the values of SetWithGen are: the number
\* of the call and the generation observed for the member.
StartSetBulk(p, r, ks, observedGens, ttl) ==
    /\ pc[p] = "idle"
    /\ hist.nw < MaxWrites
    /\ hist' = [hist EXCEPT !.nw = hist.nw + 1]
    /\ LET f == [NoFrame EXCEPT
                    !.r = r, !.op = "setbulk",
                    !.keys = SelectSeq(KeyOrder, LAMBDA k : k \in ks),
                    !.vals = [k \in ks |->
                                <<hist.nw + 1,
                                  IF MapHas(observedGens, k)
                                  THEN observedGens[k] ELSE 0>>],
                    !.obsGens = observedGens, !.ttl = ttl]
       IN IF ~enabled \/ ks = {}
          THEN Finish(p, SetBulkResult(f, ""))
          ELSE IF ~bulkEnabled
          THEN SeedNext(p, [f EXCEPT !.phase = "seed", !.rest = Seedable(f),
                                     !.seedTTL = ttl])
          ELSE Nest(p, "sb_verify", AtBulk([f EXCEPT !.rest = ks]))
    /\ UNCHANGED <<opts, store, gens, rdb, now, prov, db>>

\* the sorted keys, the wire items and the frame of the bulk entry
WireItems(f) ==
    [i \in 1..Len(f.keys) |->
        BulkItem(f.keys[i], Observed(f.obsGens, f.keys[i]),
                 CodecEncode(f.vals[f.keys[i]]).bytes)]

\* one round of the loop that verifies the observed generations, for member k
\* and the answer s of the generation store
SbCheck(p, k, s) ==
    LET f0 == loc[p].fr
        f  == IF MapHas(f0.obsGens, k)
              THEN [FrameCalled(f0, "gen.Snapshot") EXCEPT
                       !.gens = MapPut(f0.gens, singleKey(Namespace, k),
                                       snapshotGen(s)),
                       !.hooks = IF s.err
                                 THEN Append(f0.hooks,
                                          Hook("GenSnapshotError", "", 1, ""))
                                 ELSE f0.hooks]
              ELSE f0
    IN IF GenMismatch(f.obsGens, k, snapshotGen(s))
       THEN SeedNext(p, [f EXCEPT !.phase = "seed", !.rest = Seedable(f),
                                  !.seedTTL = defaultTTL,
                                  !.hooks = Append(f.hooks,
                                                Hook("BulkRejected", Namespace,
                                                     Cardinality(DOMAIN f.vals),
                                                     "gen_mismatch"))])
       ELSE IF f.rest # {k}
       THEN Nest(p, "sb_verify", AtBulk([f EXCEPT !.rest = f.rest \ {k}]))
       ELSE IF \E x \in DOMAIN f.vals : CodecEncode(f.vals[x]).err
       THEN Finish(p, SetBulkResult(f, "codec"))
       ELSE IF EncodeBulk(WireItems(f)).err
       THEN Finish(p, SetBulkResult(f, "wire"))
       ELSE Nest(p, "sb_store",
                 AtBulk([f EXCEPT !.rest = {},
                                  !.raw = EncodeBulk(WireItems(f)).bytes,
                                  !.bk = bulkKeySorted(Namespace, f.keys)]))

\* for k := range items (in any order): the generation store answers
SbVerify(p) ==
    /\ pc[p] = "sb_verify"
    /\ SnapshotReady
    /\ \E k \in loc[p].fr.rest :
          SbCheck(p, k, Answered(GenSnapshot(singleKey(Namespace, k))))
    /\ UNCHANGED <<opts, store, gens, rdb, now, prov, db, hist>>

\* ... the generation store fails
SbVerifyErr(p) ==
    /\ pc[p] = "sb_verify"
    /\ \E k \in loc[p].fr.rest \cap DOMAIN loc[p].fr.obsGens :
          SbCheck(p, k, Failed)
    /\ UNCHANGED <<opts, store, gens, rdb, now, prov, db, hist>>

\* seeding all the members after the provider's Set of the bulk entry
SeedAll(p, f) ==
    SeedNext(p, [f EXCEPT !.phase = "seed", !.rest = DOMAIN f.vals,
                          !.seedTTL = defaultTTL])

\* ok, err := c.provider.Set(ctx, bk, wireb, cost, ttl) storing the entry
SbStore(p) ==
    /\ pc[p] = "sb_store"
    /\ ProvSet(ProvOf(p), loc[p].fr.bk, loc[p].fr.raw)
    /\ SeedAll(p, FrameCalled(loc[p].fr, "bulk.provider.Set"))
    /\ UNCHANGED <<opts, store, gens, rdb, now, db, hist>>

\* the provider's Set returns a transport error: SetBulkWithGens returns it
SbStoreErr(p) ==
    /\ pc[p] = "sb_store"
    /\ Finish(p, SetBulkResult(FrameCalled(loc[p].fr, "bulk.provider.Set"),
                               "provider"))
    /\ UNCHANGED <<opts, store, gens, rdb, now, prov, db, hist>>

\* the provider refuses the bulk entry: c.hooks.ProviderSetRejected(bk, true)
SbStoreRejected(p) ==
    /\ pc[p] = "sb_store"
    /\ LET f == FrameCalled(loc[p].fr, "bulk.provider.Set")
       IN SeedAll(p, [f EXCEPT !.hooks = Append(f.hooks,
                                             Hook("ProviderSetRejected", f.bk,
                                                  0, "bulk"))])
    /\ UNCHANGED <<opts, store, gens, rdb, now, prov, db, hist>>

(***************************************************************************)
(* The cache-aside protocol of the README: UserRepo.GetByID (the loader)   *)
(* and UserRepo.UpdateName (the mutator) over a backing store db, which    *)
(* keeps for every key the number of writes made to it.  A loader caches   *)
(* the pair of the db version it read and the generation it observed.      *)
(***************************************************************************)
\* GetByID begins with r.Cache.Get(ctx, id); order is "snap_first" for the
\* documented loader and "read_first" for one that reads the db first
StartLoad(p, r, k, order) ==
    /\ pc[p] = "idle"
    /\ pc' = [pc EXCEPT ![p] = "get_fetch"]
    /\ loc' = [loc EXCEPT ![p] = [NoLoc EXCEPT !.r = r, !.key = k,
                                      !.task = "load", !.order = order,
                                      !.g0 = hist.invDone[k],
                                      !.stale0 = hist.preInv[k],
                                      !.m0 = hist.mutDone[k]]]
    /\ res' = [res EXCEPT ![p] = NoRes]
    /\ UNCHANGED <<opts, store, gens, rdb, now, prov, db, hist>>

\* the loader calls SetWithGen(ctx, id, u, obs, 0)
LoadSet(p, read, obs) ==
    /\ pc' = [pc EXCEPT ![p] = "set_snap"]
    /\ loc' = [loc EXCEPT ![p] = [loc[p] EXCEPT !.read = read, !.obs = obs,
                                                !.val = <<read, obs>>]]
    /\ hist' = IF loc[p].order = "read_first"
               THEN [hist EXCEPT !.readFirst = hist.readFirst \cup {<<read, obs>>}]
               ELSE hist
    /\ UNCHANGED res

\* obs := r.Cache.SnapshotGen(ctx, id)
LoadSnap(p) ==
    /\ pc[p] = "load_snap"
    /\ SnapshotReady
    /\ IF loc[p].order = "snap_first"
       THEN /\ Goto(p, "load_read", [loc[p] EXCEPT !.obs = GenSnapshot(K(p))])
            /\ UNCHANGED hist
       ELSE LoadSet(p, loc[p].read, GenSnapshot(K(p)))
    /\ UNCHANGED <<opts, store, gens, rdb, now, prov, db>>

\* u, err := r.dbSelectUser(ctx, id)
LoadRead(p) ==
    /\ pc[p] = "load_read"
    /\ IF loc[p].order = "snap_first"
       THEN LoadSet(p, db[loc[p].key], loc[p].obs)
       ELSE /\ Goto(p, "load_snap", [loc[p] EXCEPT !.read = db[loc[p].key]])
            /\ UNCHANGED hist
    /\ UNCHANGED <<opts, store, gens, rdb, now, prov, db>>

\* the mutators of key k that have not written the db yet
Writing(k) == {q \in Procs : pc[q] = "mut_write" /\ loc[q].key = k}

StartMutate(p, r, k) ==
    /\ pc[p] = "idle"
    /\ db[k] + Cardinality(Writing(k)) < MaxDb
    /\ GenSnapshot(singleKey(Namespace, k))
         + Cardinality(Bumping(k) \cup Writing(k)) < MaxGen
    /\ pc' = [pc EXCEPT ![p] = "mut_write"]
    /\ loc' = [loc EXCEPT ![p] = [NoLoc EXCEPT !.r = r, !.key = k,
                                      !.task = "mutate"]]
    /\ res' = [res EXCEPT ![p] = NoRes]
    /\ UNCHANGED <<opts, store, gens, rdb, now, prov, db, hist>>

\* r.dbUpdateName(ctx, id, name), then the mutator calls Invalidate(ctx, id)
MutWrite(p) ==
    /\ pc[p] = "mut_write"
    /\ db' = [db EXCEPT ![loc[p].key] = db[loc[p].key] + 1]
    /\ Goto(p, "inv_bump",
            [loc[p] EXCEPT !.obs = db[loc[p].key] + 1,
                           !.cached0 = IF "cached" \in hist.watch
                                       THEN CachedVals(loc[p].key) ELSE {}])
    /\ UNCHANGED <<opts, store, gens, rdb, now, prov, hist>>

(***************************************************************************)
(* The value store drops an entry whose TTL has run out.                   *)
(***************************************************************************)
ProvExpire(i, k) ==
    /\ ProvHas(i, k)
    /\ ProvDel(i, k)
    /\ UNCHANGED <<opts, store, gens, rdb, now, db, pc, loc, res, hist>>

(***************************************************************************)
(* Bytes put into the value store behind the cache's back, as the tests    *)
(* inject them: bytes that are no frame, frames of generation 0 and 1      *)
(* whose payload is no JSON document, and a frame of generation 0 and a    *)
(* JSON document with one more byte after it.                              *)
(***************************************************************************)
TrailingByteSingle == EncodeSingle(0, <<123, 7, 125>>) \o <<0>>

Injected ==
    {<<110, 111, 116>>, EncodeSingle(0, <<110>>), EncodeSingle(1, <<110>>),
     TrailingByteSingle}

\* impl.provider.Set(ctx, storageKey, b, 1, time.Minute)
ProvInject(i, k, b) ==
    /\ IF ProvHas(i, k) THEN prov[i][k] # b ELSE TRUE
    /\ ProvSet(i, k, b)
    /\ UNCHANGED <<opts, store, gens, rdb, now, db, pc, loc, res, hist>>

(***************************************************************************)
(* One cache over the local generation store, called by NumProcs           *)
(* goroutines through Get, SetWithGen and Invalidate; every store answers. *)
(***************************************************************************)
(***************************************************************************)
(* genstore.LocalGenStore, statement by statement: goroutines call Bump,   *)
(* Snapshot, SnapshotMany, Cleanup and Close, and the sweeper goroutine    *)
(* calls Cleanup on every tick.  store.writer holds the goroutine between  *)
(* mu.Lock and mu.Unlock (empty: none; the sweeper is a goroutine like     *)
(* the others), store.readers the goroutines holding mu.RLock.             *)
(***************************************************************************)
\* the calls of Bump on storage key k that have not written the entry yet
BumpsBefore(k) ==
    {q \in Callers : pc[q] \in {"bump_lock", "bump_read", "bump_write"}
                    /\ K(q) = k}

\* now := time.Now()
StartBump(p, k) ==
    /\ pc[p] = "idle"
    /\ LocalSnapshot(gens, singleKey(Namespace, k))
         + Cardinality(BumpsBefore(singleKey(Namespace, k))) < MaxGen
    /\ pc' = [pc EXCEPT ![p] = "bump_lock"]
    /\ loc' = [loc EXCEPT ![p] = [NoLoc EXCEPT !.key = k, !.t = now,
                                      !.seen0 = hist.seen]]
    /\ res' = [res EXCEPT ![p] = NoRes]
    /\ UNCHANGED <<opts, store, gens, rdb, now, prov, db, hist>>

\* s.mu.Lock()
BumpLock(p) ==
    /\ pc[p] = "bump_lock"
    /\ CanLock(store)
    /\ store' = [store EXCEPT !.writer = {p}]
    /\ Goto(p, "bump_read", loc[p])
    /\ UNCHANGED <<opts, gens, rdb, now, prov, db, hist>>

\* e := s.gens[k]
BumpRead(p) ==
    /\ pc[p] = "bump_read"
    /\ Goto(p, "bump_write", [loc[p] EXCEPT !.e = EntryOf(gens, K(p))])
    /\ UNCHANGED <<opts, store, gens, rdb, now, prov, db, hist>>

\* e.Gen++; e.UpdatedAt = now; s.gens[k] = e
BumpWrite(p) ==
    /\ pc[p] = "bump_write"
    /\ gens' = MapPut(gens, K(p), Bumped(loc[p].e, loc[p].t))
    /\ Goto(p, "bump_unlock",
            [loc[p] EXCEPT !.e = Bumped(loc[p].e, loc[p].t),
                           !.prev = LocalSnapshot(gens, K(p))])
    /\ UNCHANGED <<opts, store, rdb, now, prov, db, hist>>

\* s.mu.Unlock(); return e.Gen, nil
BumpUnlock(p) ==
    /\ pc[p] = "bump_unlock"
    /\ store' = [store EXCEPT !.writer = {}]
    /\ hist' = [hist EXCEPT
                   !.issued[K(p)] = hist.issued[K(p)] \cup {loc[p].e.Gen},
                   !.dup = hist.dup \/ loc[p].e.Gen \in hist.issued[K(p)],
                   !.nb[K(p)] = hist.nb[K(p)] + 1,
                   !.seen[K(p)] = Max(hist.seen[K(p)], loc[p].e.Gen)]
    /\ Return(p, [NoRes EXCEPT !.op = "bump", !.ok = TRUE, !.key = K(p),
                               !.gen = loc[p].e.Gen, !.prev = loc[p].prev,
                               !.seen0 = loc[p].seen0])
    /\ UNCHANGED <<opts, gens, rdb, now, prov, db>>

StartSnapshot(p, k) ==
    /\ pc[p] = "idle"
    /\ pc' = [pc EXCEPT ![p] = "snap_rlock"]
    /\ loc' = [loc EXCEPT ![p] = [NoLoc EXCEPT !.key = k,
                                      !.seen0 = hist.snapSeen]]
    /\ res' = [res EXCEPT ![p] = NoRes]
    /\ UNCHANGED <<opts, store, gens, rdb, now, prov, db, hist>>

\* s.mu.RLock()
SnapRLock(p) ==
    /\ pc[p] = "snap_rlock"
    /\ CanRLock(store)
    /\ store' = [store EXCEPT !.readers = store.readers \cup {p}]
    /\ Goto(p, "snap_read", loc[p])
    /\ UNCHANGED <<opts, gens, rdb, now, prov, db, hist>>

\* e, ok := s.gens[k]; s.mu.RUnlock(); return 0 if !ok, e.Gen otherwise
SnapRead(p) ==
    /\ pc[p] = "snap_read"
    /\ store' = [store EXCEPT !.readers = store.readers \ {p}]
    /\ hist' = [hist EXCEPT
                   !.seen[K(p)] = Max(hist.seen[K(p)], LocalSnapshot(gens, K(p))),
                   !.snapSeen[K(p)] =
                       Max(hist.snapSeen[K(p)], LocalSnapshot(gens, K(p)))]
    /\ Return(p, [NoRes EXCEPT !.op = "snapshot", !.ok = TRUE, !.key = K(p),
                               !.gen = LocalSnapshot(gens, K(p)),
                               !.seen0 = loc[p].seen0])
    /\ UNCHANGED <<opts, gens, rdb, now, prov, db>>

\* out := make(map[string]uint64, len(ks))
StartSnapshotMany(p, ks) ==
    /\ pc[p] = "idle"
    /\ pc' = [pc EXCEPT ![p] = "many_rlock"]
    /\ loc' = [loc EXCEPT ![p] = [NoLoc EXCEPT !.ks = ks, !.out = EmptyMap,
                                      !.fr = [NoFrame EXCEPT !.keys = ks],
                                      !.seen0 = hist.snapSeen]]
    /\ res' = [res EXCEPT ![p] = NoRes]
    /\ UNCHANGED <<opts, store, gens, rdb, now, prov, db, hist>>

\* s.mu.RLock()
ManyRLock(p) ==
    /\ pc[p] = "many_rlock"
    /\ CanRLock(store)
    /\ store' = [store EXCEPT !.readers = store.readers \cup {p}]
    /\ Goto(p, "many_read", loc[p])
    /\ UNCHANGED <<opts, gens, rdb, now, prov, db, hist>>

\* one turn of the loop: out[k] = s.gens[k].Gen
ManyRead(p) ==
    /\ pc[p] = "many_read"
    /\ loc[p].ks # <<>>
    /\ Goto(p, "many_read",
            [loc[p] EXCEPT !.ks = Tail(loc[p].ks),
                           !.out = MapPut(loc[p].out, Head(loc[p].ks),
                                          EntryOf(gens, Head(loc[p].ks)).Gen)])
    /\ UNCHANGED <<opts, store, gens, rdb, now, prov, db, hist>>

\* the loop is over: s.mu.RUnlock(); return out, nil
ManyRUnlock(p) ==
    /\ pc[p] = "many_read"
    /\ loc[p].ks = <<>>
    /\ store' = [store EXCEPT !.readers = store.readers \ {p}]
    /\ hist' = [hist EXCEPT
                   !.seen = [k \in GenKeys |->
                               IF MapHas(loc[p].out, k)
                               THEN Max(hist.seen[k], loc[p].out[k])
                               ELSE hist.seen[k]],
                   !.snapSeen = [k \in GenKeys |->
                                   IF MapHas(loc[p].out, k)
                                   THEN Max(hist.snapSeen[k], loc[p].out[k])
                                   ELSE hist.snapSeen[k]]]
    /\ Return(p, [NoRes EXCEPT !.op = "snapshot_many", !.ok = TRUE,
                               !.keys = loc[p].fr.keys,
                               !.out = loc[p].out, !.seen0 = loc[p].seen0])
    /\ UNCHANGED <<opts, gens, rdb, now, prov, db>>

(***************************************************************************)
(* cache.SnapshotGens                                                      *)
(***************************************************************************)
\* storage[i] = c.singleKey(k)
StorageOf(keys) == [i \in 1..Len(keys) |-> singleKey(Namespace, keys[i])]

\* m[sk] of Go: the zero value for a key the map does not hold
GenAt(m, sk) == IF MapHas(m, sk) THEN m[sk] ELSE 0

\* a variant that looks the user key up in the answer of SnapshotMany
SnapshotGensByUserKey(keys, m) == [k \in Range(keys) |-> GenAt(m, k)]

\* for i, k := range keys { out[k] = m[storage[i]] }
SnapshotGensOut(keys, m) ==
    [k \in Range(keys) |->
        GenAt(m, StorageOf(keys)[CHOOSE i \in 1..Len(keys) :
                                   /\ keys[i] = k
                                   /\ \A j \in 1..Len(keys) : keys[j] = k => j <= i])]

\* the generations of the keys as the store holds them now
GensNow(keys) == [k \in Range(keys) |-> GenSnapshot(singleKey(Namespace, k))]

\* what SnapshotGens returns: out; seen0 and gens are the generations of the
\* keys when the call began and when it returned
SnapshotGensResult(p, out) ==
    [NoRes EXCEPT !.op = "snapshot_gens", !.ok = TRUE,
                  !.keys = loc[p].fr.keys, !.out = out,
                  !.seen0 = loc[p].seen0, !.gens = GensNow(loc[p].fr.keys)]

StartSnapshotGens(p, r, keys) ==
    /\ pc[p] = "idle"
    /\ pc' = [pc EXCEPT ![p] = "sg_many"]
    /\ loc' = [loc EXCEPT ![p] = [NoLoc EXCEPT !.r = r, !.ks = keys,
                                      !.fr = [NoFrame EXCEPT !.keys = keys],
                                      !.out = EmptyMap,
                                      !.seen0 = GensNow(keys)]]
    /\ res' = [res EXCEPT ![p] = NoRes]
    /\ UNCHANGED <<opts, store, gens, rdb, now, prov, db, hist>>

\* m, err := c.gen.SnapshotMany(ctx, storage) answering: one batched read
\* under the store's read lock
SgMany(p) ==
    /\ pc[p] = "sg_many"
    /\ CanRLock(store)
    /\ Finish(p, SnapshotGensResult(p,
           SnapshotGensOut(loc[p].fr.keys,
                           [sk \in Range(StorageOf(loc[p].fr.keys)) |->
                               GenSnapshot(sk)])))
    /\ UNCHANGED <<opts, store, gens, rdb, now, prov, db, hist>>

\* SnapshotMany fails: fallback one by one
SgManyErr(p) ==
    /\ pc[p] = "sg_many"
    /\ IF loc[p].ks = <<>>
       THEN Finish(p, SnapshotGensResult(p, EmptyMap))
       ELSE Goto(p, "sg_one", loc[p])
    /\ UNCHANGED <<opts, store, gens, rdb, now, prov, db, hist>>

\* one turn of the fallback, the generation store answering s:
\* out[k] = c.SnapshotGen(k), which is 0 with GenSnapshotError(1, err) fired
\* when the store fails
SnapshotGenTurn(p, s) ==
    /\ pc[p] = "sg_one"
    /\ LET out == MapPut(loc[p].out, Head(loc[p].ks), snapshotGen(s))
       IN IF Tail(loc[p].ks) = <<>>
          THEN Finish(p, [SnapshotGensResult(p, out) EXCEPT
                             !.hooks = SnapshotHooks(p, s)])
          ELSE Goto(p, "sg_one", [loc[p] EXCEPT !.ks = Tail(loc[p].ks),
                                                !.out = out,
                                                !.hooks = SnapshotHooks(p, s)])
    /\ UNCHANGED <<opts, store, gens, rdb, now, prov, db, hist>>

\* g, err := c.gen.Snapshot(ctx, storageKey) answers
SgOne(p) ==
    /\ CanRLock(store)
    /\ SnapshotGenTurn(p, Answered(GenSnapshot(singleKey(Namespace,
                                                        Head(loc[p].ks)))))

\* ... or fails
SgOneErr(p) == SnapshotGenTurn(p, Failed)

\* Cleanup(retention) begins, called by a goroutine or by the sweeper:
\* if retention <= 0 { return }; cutoff := time.Now().Add(-retention)
CleanupBegin(p, retention) ==
    /\ IF retention <= 0
       THEN Return(p, [NoRes EXCEPT !.op = "cleanup", !.ok = TRUE])
       ELSE /\ pc' = [pc EXCEPT ![p] = "clean_lock"]
            /\ loc' = [loc EXCEPT ![p] = [NoLoc EXCEPT !.cutoff = now - retention,
                                                       !.t = now,
                                                       !.retention = retention]]
            /\ res' = [res EXCEPT ![p] = NoRes]
    /\ UNCHANGED <<opts, store, gens, rdb, now, prov, db, hist>>

StartCleanup(p, retention) ==
    /\ pc[p] = "idle"
    /\ CleanupBegin(p, retention)

\* s.mu.Lock()
CleanLock(p) ==
    /\ pc[p] = "clean_lock"
    /\ CanLock(store)
    /\ store' = [store EXCEPT !.writer = {p}]
    /\ Goto(p, "clean_scan", loc[p])
    /\ UNCHANGED <<opts, gens, rdb, now, prov, db, hist>>

\* the loop over s.gens, then s.mu.Unlock()
CleanScan(p) ==
    /\ pc[p] = "clean_scan"
    /\ gens' = Prune(gens, loc[p].cutoff)
    /\ store' = [store EXCEPT !.writer = {}]
    /\ Return(p, [NoRes EXCEPT !.op = "cleanup", !.ok = TRUE])
    /\ UNCHANGED <<opts, rdb, now, prov, db, hist>>

\* the goroutines between s.mu.Lock() and s.mu.Unlock(), and those between
\* s.mu.RLock() and s.mu.RUnlock()
HoldingLock ==
    {g \in Goroutines :
        pc[g] \in {"bump_read", "bump_write", "bump_unlock", "clean_scan"}}
HoldingRLock == {g \in Goroutines : pc[g] \in {"snap_read", "many_read"}}

\* sync.RWMutex: at most one goroutine, the sweeper included, is between Lock
\* and Unlock, and no reader beside it
MutexExcludes ==
    /\ HoldingLock \subseteq store.writer
    /\ HoldingRLock \subseteq store.readers
    /\ Cardinality(store.writer) <= 1
    /\ store.writer # {} => store.readers = {}

\* The two channel operands of the select are read one after the other and
\* without the lock, so a Close may write between them.  First s.ticker.C:
\* with s.ticker nil the nil pointer is dereferenced and the program ends.
SweeperEvalTicker ==
    /\ pc[Sweeper] = "sw_eval"
    /\ IF store.ticker = "nil"
       THEN /\ pc' = [g \in Goroutines |-> "panic"]
            /\ UNCHANGED <<loc, res>>
       ELSE Goto(Sweeper, "sw_eval_stop",
                 [loc[Sweeper] EXCEPT !.ticker = store.ticker])
    /\ UNCHANGED <<opts, store, gens, rdb, now, prov, db, hist>>

\* ... then s.stopCh, which may be nil by now
SweeperEvalStopCh ==
    /\ pc[Sweeper] = "sw_eval_stop"
    /\ Goto(Sweeper, "sw_select", [loc[Sweeper] EXCEPT !.stopCh = store.stopCh])
    /\ UNCHANGED <<opts, store, gens, rdb, now, prov, db, hist>>

\* case <-s.ticker.C: s.Cleanup(retention)
SweeperTick ==
    /\ pc[Sweeper] = "sw_select"
    /\ ~store.stopped
    /\ CleanupBegin(Sweeper, store.retention)

\* case <-s.stopCh: return
SweeperStop ==
    /\ pc[Sweeper] = "sw_select"
    /\ loc[Sweeper].stopCh = "ch" /\ store.closed
    /\ pc' = [pc EXCEPT ![Sweeper] = "done"]
    /\ loc' = [loc EXCEPT ![Sweeper] = NoLoc]
    /\ UNCHANGED <<opts, store, gens, rdb, now, prov, db, res, hist>>

StartClose(p) ==
    /\ pc[p] = "idle"
    /\ pc' = [pc EXCEPT ![p] = "close_lock"]
    /\ loc' = [loc EXCEPT ![p] = NoLoc]
    /\ res' = [res EXCEPT ![p] = NoRes]
    /\ UNCHANGED <<opts, store, gens, rdb, now, prov, db, hist>>

\* s.mu.Lock(); stopCh := s.stopCh; ticker := s.ticker;
\* s.stopCh, s.ticker = nil, nil; s.mu.Unlock()
CloseLock(p) ==
    /\ pc[p] = "close_lock"
    /\ CanLock(store)
    /\ store' = [store EXCEPT !.stopCh = "nil", !.ticker = "nil"]
    /\ Goto(p, "close_stop", [loc[p] EXCEPT !.stopCh = store.stopCh,
                                            !.ticker = store.ticker])
    /\ UNCHANGED <<opts, gens, rdb, now, prov, db, hist>>

\* if stopCh != nil { close(stopCh); if ticker != nil { ticker.Stop() } ... }
CloseStop(p) ==
    /\ pc[p] = "close_stop"
    /\ IF loc[p].stopCh = "nil"
       THEN /\ Return(p, [NoRes EXCEPT !.op = "close", !.ok = TRUE])
            /\ UNCHANGED store
       ELSE /\ store' = [store EXCEPT !.closed = TRUE,
                                      !.stopped = store.stopped
                                                  \/ loc[p].ticker # "nil"]
            /\ Goto(p, "close_wait", loc[p])
    /\ UNCHANGED <<opts, gens, rdb, now, prov, db, hist>>

\* s.wg.Wait() returns once the sweeper has returned; return nil
CloseWait(p) ==
    /\ pc[p] = "close_wait"
    /\ pc[Sweeper] = "done"
    /\ Return(p, [NoRes EXCEPT !.op = "close", !.ok = TRUE, !.task = "stop"])
    /\ UNCHANGED <<opts, store, gens, rdb, now, prov, db, hist>>

\* the clock advances
Tick ==
    /\ now < MaxTime
    /\ now' = now + 1
    /\ UNCHANGED <<opts, store, gens, rdb, prov, db, pc, loc, res, hist>>

\* a goroutine calls Cleanup(retention) of the LocalGenStore the cache was
\* built over (the Cleanup of a RedisGenStore does nothing)
CacheCleanup(p, retention) ==
    /\ opts.GenStore = "local"
    /\ StartCleanup(p, retention)

\* the TTL that Bump's EXPIRE set on a Redis counter runs out
RedisExpire(storageKey) ==
    /\ opts.GenStore = "redis"
    /\ opts.ttl > 0
    /\ MapHas(rdb, RedisKey(Namespace, storageKey))
    /\ rdb[RedisKey(Namespace, storageKey)].ttl
    /\ rdb' = MapDel(rdb, RedisKey(Namespace, storageKey))
    /\ UNCHANGED <<opts, store, gens, now, prov, db, pc, loc, res, hist>>

\* NewLocalGenStore(cleanupInterval, retention): the ticker, the stop channel
\* and the sweeper exist only if both are positive
NewLocalGenStore(cleanupInterval, retention) ==
    [writer |-> {}, readers |-> {},
     ticker |-> IF cleanupInterval > 0 /\ retention > 0 THEN "tk" ELSE "nil",
     stopCh |-> IF cleanupInterval > 0 /\ retention > 0 THEN "ch" ELSE "nil",
     retention |-> retention, stopped |-> FALSE, closed |-> FALSE]

\* a LocalGenStore that never prunes
NoStore == NewLocalGenStore(0, 0)

\* the user keys history is kept of
\* the user keys of two caches whose namespaces hold a ':'
ColonKeys == {"c", "b:c"}

HistKeys == Keys \cup BulkUserKeys \cup ColonKeys

NoHist == [nw |-> 0, watch |-> {},
           invDone |-> [k \in HistKeys |-> 0],
           preInv |-> [k \in HistKeys |-> {}],
           mutDone |-> [k \in HistKeys |-> 0],
           readFirst |-> {},
           invLast |-> [k \in HistKeys |-> 0], old |-> {},
           issued |-> [k \in GenKeys |-> {}], dup |-> FALSE,
           nb |-> [k \in GenKeys |-> 0],
           seen |-> [k \in GenKeys |-> 0],
           snapSeen |-> [k \in GenKeys |-> 0]]

InitStore(o, st, h) ==
    /\ opts = o
    /\ store = st
    /\ gens = EmptyMap
    /\ rdb = EmptyMap
    /\ now = 1
    /\ prov = [i \in Providers |-> EmptyMap]
    /\ db = [k \in Keys |-> 0]
    /\ pc = [p \in Goroutines |->
               IF p # Sweeper THEN "idle"
               ELSE IF st.ticker = "nil" THEN "none" ELSE "sw_eval"]
    /\ loc = [p \in Goroutines |-> NoLoc]
    /\ res = [p \in Goroutines |-> NoRes]
    /\ hist = h

InitWith(o, h) == InitStore(o, NoStore, h)

\* a cache built over a LocalGenStore (Options.GenStore), every replica on
\* provider 1
LocalOpts == [GenStore |-> "local", ttl |-> 0, provOf |-> [r \in Replicas |-> 1],
              nsOf |-> [r \in Replicas |-> Namespace],
              Codec |-> "bytes", Disabled |-> FALSE, DisableBulk |-> FALSE]

Init == InitWith(LocalOpts, NoHist)

Next ==
    \E p \in Procs :
        \/ \E k \in Keys : StartGet(p, 1, k)
        \/ GetFetch(p)
        \/ GetSnap(p)
        \/ GetHeal(p)
        \/ \E k \in Keys, obs \in 0..MaxGen : StartSet(p, 1, k, obs)
        \/ SetSnap(p)
        \/ SetStore(p)
        \/ \E k \in Keys : StartInv(p, 1, k)
        \/ InvBumpBegin(p)
        \/ InvBump(p)
        \/ InvDel(p)

Spec == Init /\ [][Next]_vars

(***************************************************************************)
(* Properties of the single-key protocol.                                  *)
(***************************************************************************)
\* C1: a Get that starts after an Invalidate of its key has returned, and
\* hits, returns a value written by a SetWithGen whose observed generation is
\* at least the generation that Invalidate produced (res.g0 is the largest
\* generation produced by the Invalidate calls that had returned when the Get
\* started).
NoStaleAfterInvalidate ==
    \A p \in Procs :
        (res[p].op = "get" /\ res[p].ok) => WriteObs(res[p].v) >= res[p].g0

\* a Get started after an Invalidate returned finds an entry written with an
\* older observed generation, and is about to drop it
StaleEntryRejected ==
    \E p \in Procs :
        /\ pc[p] = "get_heal"
        /\ loc[p].reason = "gen_mismatch"
        /\ loc[p].g0 >= 1
        /\ WriteObs(loc[p].payload) < loc[p].g0

(***************************************************************************)
(* One goroutine writes and reads: SetWithGen with any observed generation, *)
(* Get, and the sequence of TestSingleCASFlow (SnapshotGen, SetWithGen at   *)
(* the generation returned, Get), while any goroutine invalidates.          *)
(***************************************************************************)
CasCallers == {1}

NextCas ==
    \/ \E p \in CasCallers :
        \/ \E k \in Keys : StartWarm(p, 1, k)
        \/ SetObserved(p)
        \/ \E k \in Keys, obs \in 0..MaxGen : StartSet(p, 1, k, obs)
        \/ SetSnap(p)
        \/ SetStore(p)
        \/ \E k \in Keys : StartGet(p, 1, k)
        \/ GetFetch(p)
        \/ GetSnap(p)
        \/ GetHeal(p)
    \/ \E p \in Procs :
        \/ \E k \in Keys : StartInv(p, 1, k)
        \/ InvBumpBegin(p)
        \/ InvBump(p)
        \/ InvDel(p)

SpecCas == Init /\ [][NextCas]_vars

\* SetWithGen goes on to the provider's Set only if the generation it
\* snapshots equals the observed one; otherwise that very step returns nil
\* having called only the snapshot, and the value stores are unchanged
SetGoesOnOnlyIfCurrent ==
    \A p \in Procs :
        (pc[p] = "set_snap" /\ pc'[p] # "set_snap") =>
            IF GenSnapshot(K(p)) = loc[p].obs
            THEN pc'[p] = "set_store"
            ELSE /\ res'[p].op = "set" /\ res'[p].ok /\ res'[p].err = ""
                 /\ res'[p].calls = <<"gen.Snapshot">>
                 /\ prov' = prov

\* the Get that follows a SetWithGen that was skipped misses without error,
\* and the value of that SetWithGen is in no value store
SkippedWriteThenMiss ==
    \A p \in CasCallers :
        (res[p].op = "get" /\ res[p].task = "warm" /\ res[p].skipped) =>
            /\ ~res[p].ok /\ res[p].err = "" /\ res[p].v = <<>>
            /\ \A k \in Keys : res[p].wrote \notin CachedVals(k)

\* C6: SetWithGen goes on to the provider's Set only if the generation it
\* snapshots equals the observed one; otherwise that very step returns nil
\* having called only the snapshot, and the value stores are unchanged.  So a
\* SetWithGen that carries a generation observed before an Invalidate of the
\* key returns nil and stores nothing, and the Get of the key that follows it
\* misses.
CasWriteSafety ==
    /\ [][SetGoesOnOnlyIfCurrent]_vars
    /\ []SkippedWriteThenMiss

\* a caller observed generation 0; an Invalidate of the key returned; the
\* caller's SetWithGen(k, v, 0) returned nil having called only the snapshot,
\* and the Get that followed it fetched nothing and missed
StaleWriteSkipped ==
    \E p \in CasCallers, k \in Keys :
        /\ res[p].op = "get" /\ res[p].task = "warm" /\ res[p].skipped
        /\ res[p].obs = 0 /\ ~res[p].ok
        /\ res[p].calls = <<"provider.Get">>
        /\ hist.invDone[k] = 1
        /\ GenSnapshot(singleKey(Namespace, k)) = 1
        /\ CachedVals(k) = {}

\* a caller's SetWithGen carried a generation observed before an Invalidate
\* whose Del had not run yet: it was skipped, and the Get that followed it
\* fetched the entry of the older generation and healed it
StaleWriteSkippedEntryHealed ==
    \E p \in CasCallers :
        /\ res[p].op = "get" /\ res[p].task = "warm" /\ res[p].skipped
        /\ ~res[p].ok
        /\ res[p].hooks # <<>> /\ res[p].hooks[1].reason = "gen_mismatch"

\* C7: a hit of Get went through the provider's Get and then the snapshot, in
\* this order, and the generation of the entry it fetched equals the
\* generation that snapshot answered.
HitIsValidated ==
    \A p \in Procs :
        (res[p].op = "get" /\ res[p].ok) =>
            /\ res[p].dgen = res[p].cur
            /\ res[p].calls = <<"provider.Get", "gen.Snapshot">>

\* a hit on an entry of a generation that an Invalidate produced
HitAfterInvalidate ==
    \E p \in Procs : res[p].op = "get" /\ res[p].ok /\ res[p].dgen >= 1

(***************************************************************************)
(* The same cache with a generation store and a provider that may fail any *)
(* call (as failingGenStore and delErrProvider of the tests do) and a      *)
(* provider that may refuse a write.                                       *)
(***************************************************************************)
InitFail == InitWith(LocalOpts,
                     [NoHist EXCEPT !.watch = {"cached"}])

NextFail ==
    \/ Next
    \/ \E p \in Procs :
        \/ GetFetchErr(p)
        \/ GetSnapErr(p)
        \/ GetHealErr(p)
        \/ SetSnapErr(p)
        \/ SetStoreErr(p)
        \/ SetStoreRejected(p)
        \/ InvBumpErr(p)
        \/ InvDelErr(p)

SpecFail == InitFail /\ [][NextFail]_vars

\* C2: whatever calls of the generation store and of the provider fail, a Get
\* that starts after an Invalidate of its key returned nil never returns a
\* value that was cached for the key when that Invalidate was called
\* (res.stale0 holds those values).
NeverStaleUnderFailures ==
    \A p \in Procs :
        (res[p].op = "get" /\ res[p].ok) => res[p].v \notin res[p].stale0

(***************************************************************************)
(* Two cache instances over one shared Redis generation store, built by    *)
(* NewRedisGenStore (counters that never expire) or NewRedisGenStoreWithTTL *)
(* (counters that expire); each has its own provider, or both use one;      *)
(* cached entries may expire. Goroutine p is the caller of replica p.       *)
(***************************************************************************)
\* the ttl of the shared store: 0 for NewRedisGenStore
RepTTLs == {0, 1}

InitRep ==
    \E own \in BOOLEAN, ttl \in RepTTLs :
        InitWith([LocalOpts EXCEPT
                     !.GenStore = "redis", !.ttl = ttl,
                     !.provOf = [r \in Replicas |-> IF own THEN r ELSE 1]],
                 [NoHist EXCEPT !.watch = {"cached"}])

NextRep ==
    \/ \E p \in Procs :
        \/ \E k \in Keys : StartGet(p, p, k)
        \/ GetFetch(p)
        \/ GetSnap(p)
        \/ GetHeal(p)
        \/ \E k \in Keys, obs \in 0..MaxGen : StartSet(p, p, k, obs)
        \/ SetSnap(p)
        \/ SetStore(p)
        \/ \E k \in Keys : StartInv(p, p, k)
        \/ InvBumpBegin(p)
        \/ InvBump(p)
        \/ InvDel(p)
    \/ \E i \in Providers, k \in Keys : ProvExpire(i, singleKey(Namespace, k))
    \/ \E k \in Keys : RedisExpire(singleKey(Namespace, k))

SpecRep == InitRep /\ [][NextRep]_vars

\* what a Get that hit owes to the Invalidate calls that had returned when it
\* started: its value is none that a provider held for the key when one of
\* them was called, and was written at a generation they had produced
HitIsNotStale(r) ==
    (r.op = "get" /\ r.ok) => r.v \notin r.stale0 /\ WriteObs(r.v) >= r.g0

\* C3: with replicas sharing the generation store, a Get on any replica that
\* starts after an Invalidate of its key returned on any replica never returns
\* a value that any provider held for the key when that Invalidate was called
\* (refuted over a store whose counters expire: ReplicaReturnedStale).
NoStaleAcrossReplicas ==
    \A p \in Procs :
        (res[p].op = "get" /\ res[p].ok) => res[p].v \notin res[p].stale0

\* over a shared store whose counters never expire no hit is stale, and every
\* hit was written at a generation the returned Invalidate calls had produced
NoStaleAcrossReplicasWithoutTTL ==
    opts.ttl = 0 => \A p \in Procs : HitIsNotStale(res[p])

\* replica 2 has its own provider; over counters that expire, a Get on
\* replica 2 that started after an Invalidate on replica 1 had returned has
\* returned a value that provider 2 held when that Invalidate was called
ReplicaReturnedStale ==
    \E p \in Procs :
        /\ opts.provOf[2] = 2 /\ opts.ttl > 0
        /\ res[p].op = "get" /\ res[p].ok
        /\ res[p].v \in res[p].stale0
        /\ res[p].g0 = 1 /\ res[p].dgen = 0 /\ res[p].cur = 0

\* replica 2 has its own provider, which still holds a value cached when an
\* Invalidate was called (the Invalidate ran on replica 1: one on replica 2
\* would have deleted this entry); a Get on replica 2 started after that
\* Invalidate returned has fetched the entry and is about to drop it
ReplicaRejectsStale ==
    \E p \in Procs :
        /\ opts.provOf[2] = 2
        /\ loc[p].r = 2
        /\ pc[p] = "get_heal"
        /\ loc[p].reason = "gen_mismatch"
        /\ loc[p].payload \in loc[p].stale0

(***************************************************************************)
(* Cache-aside over one cache: loaders that snapshot before they read the  *)
(* backing store, and mutators.  A loader goes on to the backing store     *)
(* whenever its Get returned no value, also when it returned an error.     *)
(***************************************************************************)
NextAsideWith(orders) ==
    \E p \in Procs :
        \/ \E k \in Keys, order \in orders : StartLoad(p, 1, k, order)
        \/ GetFetch(p)
        \/ GetFetchErr(p)
        \/ GetSnap(p)
        \/ GetHeal(p)
        \/ LoadSnap(p)
        \/ LoadRead(p)
        \/ SetSnap(p)
        \/ SetStore(p)
        \/ \E k \in Keys : StartMutate(p, 1, k)
        \/ MutWrite(p)
        \/ InvBumpBegin(p)
        \/ InvBump(p)
        \/ InvDel(p)

NextAside == NextAsideWith({"snap_first"})

SpecAside == Init /\ [][NextAside]_vars

\* the db version a cached value was read at
ReadAt(v) == v[1]

\* C4: with loaders that snapshot the generation before they read the db, a
\* Get that starts after a mutator's Invalidate returned never returns a value
\* read from the db before that mutator's write (res.m0 is the latest db
\* version whose mutator had its Invalidate returned when the Get started).
CacheAsideNeverStale ==
    \A p \in Procs :
        (res[p].op = "get" /\ res[p].ok) => ReadAt(res[p].v) >= res[p].m0

\* a loader passed the CAS test and then stored what it had read before a
\* mutator's write; a Get started after that mutator's Invalidate returned
\* has fetched this entry and is about to drop it
StaleLoadRejected ==
    \E p \in Procs :
        /\ pc[p] = "get_heal"
        /\ loc[p].reason = "gen_mismatch"
        /\ ReadAt(loc[p].payload) < loc[p].m0

\* the Get of a loader returned the provider's error; the loader dropped it
\* and is about to take its snapshot
LoaderWentOnAfterError ==
    \E p \in Procs :
        /\ pc[p] = "load_snap" /\ loc[p].task = "load"
        /\ res[p].op = "get" /\ res[p].err = "provider" /\ ~res[p].ok

(***************************************************************************)
(* Cache-aside where a loader may also read the db before it snapshots.    *)
(***************************************************************************)
NextAsideBad == NextAsideWith({"snap_first", "read_first"})

SpecAsideBad == Init /\ [][NextAsideBad]_vars

\* C5: the order matters: a Get that starts after a mutator's Invalidate
\* returned may return a value read before that mutator's write, and every
\* such value was cached by a loader that read the db before it snapshotted.
OnlyReadFirstIsStale ==
    \A p \in Procs :
        (res[p].op = "get" /\ res[p].ok /\ ReadAt(res[p].v) < res[p].m0) =>
            res[p].v \in hist.readFirst

\* a Get started after the mutator's Invalidate returned hits a value read
\* before the mutator's write and stored with the current generation
ReadFirstStaleHit ==
    \E p \in Procs :
        /\ res[p].op = "get" /\ res[p].ok
        /\ ReadAt(res[p].v) < res[p].m0
        /\ res[p].dgen = res[p].cur
        /\ res[p].cur = GenSnapshot(singleKey(Namespace, "u1"))
        /\ res[p].v \in hist.readFirst

(***************************************************************************)
(* The local generation store on its own: goroutines calling Bump,         *)
(* Snapshot and SnapshotMany on a store that never prunes.                 *)
(***************************************************************************)
\* the key lists handed to SnapshotMany: none, the bumped key, and a key
\* that is never bumped followed by the bumped key
KeyLists ==
    {<<>>,
     <<singleKey(Namespace, "u1")>>,
     <<singleKey(Namespace, "u2"), singleKey(Namespace, "u1")>>}

InitBump == InitStore(LocalOpts, NewLocalGenStore(0, 0), NoHist)

NextBumpOf(callers) ==
    \E p \in callers :
        \/ \E k \in BumpUserKeys : StartBump(p, k)
        \/ BumpLock(p)
        \/ BumpRead(p)
        \/ BumpWrite(p)
        \/ BumpUnlock(p)
        \/ \E k \in GenUserKeys : StartSnapshot(p, k)
        \/ SnapRLock(p)
        \/ SnapRead(p)
        \/ \E ks \in KeyLists : StartSnapshotMany(p, ks)
        \/ ManyRLock(p)
        \/ ManyRead(p)
        \/ ManyRUnlock(p)

NextBump == NextBumpOf(Callers)

SpecBump == InitBump /\ [][NextBump]_vars

\* C8: on a store that never prunes, every Bump returns the generation the
\* key had just before its write plus one, and more than every value a
\* Snapshot, SnapshotMany or Bump had returned for the key when it was
\* called; the values the Bumps of a key returned are distinct and are
\* 1..n for n Bumps; and with no Bump of the key in flight Snapshot is n.
BumpIsAtomic ==
    /\ \A p \in Callers :
          res[p].op = "bump" =>
              /\ res[p].gen = res[p].prev + 1
              /\ res[p].gen > res[p].seen0[res[p].key]
    /\ ~hist.dup
    /\ \A k \in GenKeys :
          /\ hist.issued[k] = 1..hist.nb[k]
          /\ ({q \in Callers : pc[q] \in {"bump_lock", "bump_read", "bump_write",
                                       "bump_unlock"} /\ K(q) = k} = {}
                => LocalSnapshot(gens, k) = hist.nb[k])

\* two Bumps of one key ran concurrently (the one that returned 2 was called
\* before any call had returned 1) with a SnapshotMany that was called before
\* either returned and read the key between their writes
ConcurrentBumps ==
    \E p \in Callers, q \in Callers, r \in Callers :
        /\ res[p].op = "bump" /\ res[p].gen = 2
        /\ res[p].seen0[res[p].key] = 0
        /\ res[q].op = "bump" /\ res[q].gen = 1 /\ res[q].key = res[p].key
        /\ res[r].op = "snapshot_many" /\ MapHas(res[r].out, res[p].key)
        /\ res[r].out[res[p].key] = 1
        /\ hist.seen[res[p].key] = 2

(***************************************************************************)
(* The local generation store with everything it offers: a store built     *)
(* with any interval and retention, Cleanup by hand and by the sweeper,    *)
(* Close, and a clock.                                                     *)
(***************************************************************************)
MaxRetention == 1

\* the goroutines calling the store next to its sweeper
NumSweptCallers == 1
SweptCallers == 1..NumSweptCallers

InitGen ==
    \E cleanupInterval \in 0..1, retention \in 0..MaxRetention :
        InitStore(LocalOpts, NewLocalGenStore(cleanupInterval, retention), NoHist)

NextGen ==
    \/ NextBumpOf(SweptCallers)
    \/ \E p \in SweptCallers :
         \/ \E retention \in 0..MaxRetention : StartCleanup(p, retention)
         \/ StartClose(p)
         \/ CloseLock(p)
         \/ CloseStop(p)
         \/ CloseWait(p)
    \/ \E g \in SweptCallers \cup {Sweeper} :
         \/ CleanLock(g)
         \/ CleanScan(g)
    \/ SweeperEvalTicker
    \/ SweeperEvalStopCh
    \/ SweeperTick
    \/ SweeperStop
    \/ Tick

SpecGen == InitGen /\ [][NextGen]_vars

\* C9: over Bump, Snapshot, SnapshotMany, Cleanup and Close, no Snapshot or
\* SnapshotMany returns for a key less than a Snapshot or SnapshotMany had
\* returned for it when the call began, and no Bump returns a generation a
\* Bump of the key has returned before.
GenerationsOnlyIncrease ==
    /\ \A p \in SweptCallers :
          /\ res[p].op = "snapshot" => res[p].gen >= res[p].seen0[res[p].key]
          /\ res[p].op = "snapshot_many" =>
                \A k \in DOMAIN res[p].out : res[p].out[k] >= res[p].seen0[k]
    /\ ~hist.dup

(***************************************************************************)
(* One cache whose generations may be reset: over the local store with     *)
(* Cleanup, or over Redis counters with a TTL.  Writers observe the        *)
(* generation with SnapshotGen before they call SetWithGen.                *)
(***************************************************************************)
InitPrune ==
    \E gs \in {"local", "redis"} :
        InitStore([LocalOpts EXCEPT !.GenStore = gs,
                                     !.ttl = IF gs = "redis" THEN 1 ELSE 0],
                  NewLocalGenStore(0, MaxRetention),
                  [NoHist EXCEPT !.watch = {"last"}])

\* the goroutine that calls Cleanup next to the callers of the cache
Pruners == Callers \ Procs

NextPrune ==
    \/ \E p \in Procs :
        \/ \E k \in Keys : StartGet(p, 1, k)
        \/ GetFetch(p)
        \/ GetSnap(p)
        \/ GetHeal(p)
        \/ \E k \in Keys : StartObserve(p, 1, k)
        \/ SetObserved(p)
        \/ SetSnap(p)
        \/ SetStore(p)
        \/ \E k \in Keys : StartInv(p, 1, k)
        \/ InvBumpBegin(p)
        \/ InvBump(p)
        \/ InvDel(p)
    \/ Tick
    \/ \E p \in Pruners, retention \in 1..MaxRetention : CacheCleanup(p, retention)
    \/ \E p \in Pruners : CleanLock(p)
    \/ \E p \in Pruners : CleanScan(p)
    \/ \E k \in Keys : RedisExpire(singleKey(Namespace, k))

SpecPrune == InitPrune /\ [][NextPrune]_vars

\* C10: with generations that may be reset, a Get that starts after an
\* Invalidate of its key returned never returns a value whose writer observed,
\* before that Invalidate returned, a generation older than the one produced
\* by the last Invalidate that had returned (res.last0); res.old0 are the
\* writes whose observation came before an Invalidate that had returned.
PruneIsHarmless ==
    \A p \in Procs :
        (res[p].op = "get" /\ res[p].ok) =>
            \/ WriteObs(res[p].v) >= res[p].last0
            \/ WriteId(res[p].v) \notin res[p].old0

\* the Bump of an Invalidate read the clock, waited, and wrote the entry with
\* the time it had read; a Cleanup has pruned the generation before the
\* Invalidate got to its Del
FreshBumpPruned ==
    \E p \in Procs :
        /\ opts.GenStore = "local"
        /\ pc[p] = "inv_del" /\ loc[p].bumped = 1
        /\ loc[p].t + MaxRetention < now
        /\ GenSnapshot(K(p)) = 0

(***************************************************************************)
(* Failing stores: what a call does once its snapshot has failed.          *)
(***************************************************************************)
\* the hooks named name among the hooks hs
Fired(hs, name) == SelectSeq(hs, LAMBDA h : h.name = name)

\* C11: a call whose snapshot failed fired GenSnapshotError, and it neither
\* returns a value (Get misses whatever generation the entry carries) nor
\* stores one (SetWithGen skips whatever generation was observed).
SnapshotErrorDegrades ==
    \A p \in Procs :
        /\ (res[p].op = "get" /\ Fired(res[p].hooks, "GenSnapshotError") # <<>>)
              => ~res[p].ok
        /\ pc[p] = "set_store" => Fired(loc[p].hooks, "GenSnapshotError") = <<>>

(***************************************************************************)
(* Self-heal on read: a cache with the JSON codec over a value store that  *)
(* may hold injected bytes and whose Del may fail.                         *)
(***************************************************************************)
InitHeal == InitWith([LocalOpts EXCEPT !.Codec = "json"], NoHist)

NextHeal ==
    \/ Next
    \/ \E p \in Procs : GetHealErr(p)
    \/ \E k \in Keys, b \in Injected : ProvInject(1, singleKey(Namespace, k), b)

SpecHeal == InitHeal /\ [][NextHeal]_vars

\* C12: a Get that fetched an entry goes to its self-heal exactly when the
\* entry fails wire decoding ("corrupt"), carries a generation other than the
\* current one ("gen_mismatch"), or has a payload the codec cannot decode
\* ("value_decode"); the self-heal calls the provider's Del, fires exactly one
\* SelfHealSingle with that reason, and returns a miss without error; and if
\* the Del succeeds the key is absent from the provider when Get returns.
SelfHealOnRead ==
    [][\A p \in Procs :
        /\ (pc[p] = "get_fetch" /\ pc'[p] # "get_fetch"
              /\ ProvHas(ProvOf(p), K(p))) =>
             IF DecodeSingleStrict(prov[ProvOf(p)][K(p)]).err
             THEN pc'[p] = "get_heal" /\ loc'[p].reason = "corrupt"
             ELSE pc'[p] = "get_snap"
        /\ (pc[p] = "get_snap" /\ pc'[p] # "get_snap") =>
             IF loc[p].dgen # GenSnapshot(K(p))
             THEN pc'[p] = "get_heal" /\ loc'[p].reason = "gen_mismatch"
             ELSE IF JSONDecode(loc[p].payload).err
             THEN pc'[p] = "get_heal" /\ loc'[p].reason = "value_decode"
             ELSE pc'[p] = "idle" /\ res'[p].ok
        /\ (pc[p] = "get_heal" /\ pc'[p] # "get_heal") =>
             /\ res'[p].op = "get" /\ ~res'[p].ok /\ res'[p].err = ""
             /\ res'[p].v = <<>>
             /\ res'[p].calls[Len(res'[p].calls)] = "provider.Del"
             /\ res'[p].hooks = <<Hook("SelfHealSingle", K(p), 0, loc[p].reason)>>
             /\ GetHeal(p) => ~MapHas(prov'[ProvOf(p)], K(p))]_vars

\* one Get is healing, as corrupt, the entry of the current generation that
\* a byte follows, and another has healed an entry of an old generation; the
\* key is absent from the provider
HealedTrailingAndStale ==
    \E p \in Procs, q \in Procs :
        /\ pc[p] = "get_heal" /\ loc[p].raw = TrailingByteSingle
        /\ loc[p].reason = "corrupt"
        /\ GenSnapshot(K(p)) = 0
        /\ res[q].op = "get"
        /\ res[q].hooks = <<Hook("SelfHealSingle", singleKey(Namespace, "u1"), 0,
                                 "gen_mismatch")>>
        /\ ~ProvHas(1, singleKey(Namespace, "u1"))

\* one Get has healed an entry of an old generation and another an entry
\* whose payload is no document, and the key is absent from the provider
HealedStaleAndUndecodable ==
    \E p \in Procs, q \in Procs :
        /\ res[p].op = "get"
        /\ res[p].hooks = <<Hook("SelfHealSingle", singleKey(Namespace, "u1"), 0,
                                 "gen_mismatch")>>
        /\ res[q].op = "get"
        /\ res[q].hooks = <<Hook("SelfHealSingle", singleKey(Namespace, "u1"), 0,
                                 "value_decode")>>
        /\ ~ProvHas(1, singleKey(Namespace, "u1"))

\* C13: Invalidate returns an error exactly when both its Bump and its Del
\* failed; the error is then an InvalidateError of the key that unwraps to
\* the bump error and the delete error, and InvalidateOutage has fired once
\* for the key.  In every other case Invalidate returns nil and
\* InvalidateOutage has not fired.
OutageOnlyIfBothFail ==
    [][\A p \in Procs :
        (pc[p] = "inv_del" /\ pc'[p] # "inv_del") =>
            IF loc[p].bumpErr # Nil /\ InvDelErr(p)
            THEN /\ res'[p].op = "inv" /\ res'[p].err = "invalidate"
                 /\ res'[p].key = loc[p].key
                 /\ res'[p].unwrap = <<"bump failed", "del failed">>
                 /\ Fired(res'[p].hooks, "InvalidateOutage")
                      = <<Hook("InvalidateOutage", loc[p].key, 0, "")>>
            ELSE /\ res'[p].op = "inv" /\ res'[p].err = "" /\ res'[p].ok
                 /\ res'[p].unwrap = <<>>
                 /\ Fired(res'[p].hooks, "InvalidateOutage") = <<>>]_vars

\* one Invalidate has returned the error of the coupled failure, and another,
\* whose Bump alone failed, has returned nil
OutageAndPartialFailure ==
    \E p \in Procs, q \in Procs :
        /\ res[p].op = "inv" /\ res[p].err = "invalidate"
        /\ Len(res[p].unwrap) = 2
        /\ Len(Fired(res[p].hooks, "InvalidateOutage")) = 1
        /\ res[q].op = "inv" /\ res[q].ok
        /\ Fired(res[q].hooks, "GenBumpError") # <<>>
        /\ res[q].calls = <<"gen.Bump", "provider.Del">>

(***************************************************************************)
(* GetBulk over bulk entries of any content: the value store holds, under  *)
(* the bulk key of the request, entries put there behind the cache's back  *)
(* (as TestBulkValidTable builds them): with all members, with a member    *)
(* missing, with an item nobody requested, with a member twice, and bytes  *)
(* that are no frame.  Invalidate moves the generation of one member.      *)
(***************************************************************************)
\* the generations of the entries, and the bound of the member's generation
MaxBulkGen == 1

\* the key lists GetBulk is called with
Requests == {<<"u1", "u3">>, <<"u3", "u1", "u3">>}

\* the member that is invalidated
InvUserKeys == {"u3"}

\* the item stored for key k at generation g: a value observed at g
ItemAt(k, g) == BulkItem(k, g, <<9, g>>)

InjectedBulks ==
    {<<110, 111, 116>>}
      \cup {EncodeBulk(<<ItemAt("u1", 0), ItemAt("u3", g)>>).bytes :
               g \in 0..MaxBulkGen}
      \cup {EncodeBulk(<<ItemAt("u1", 0), ItemAt("u3", g), ItemAt("u4", 0)>>).bytes :
               g \in 0..MaxBulkGen}
      \cup {EncodeBulk(<<ItemAt("u3", 0), ItemAt("u1", 0), ItemAt("u3", 1)>>).bytes,
            EncodeBulk(<<ItemAt("u1", 0), ItemAt("u4", 0)>>).bytes}

\* Invalidate of a member, up to generation MaxBulkGen
BulkInv(p, k) ==
    /\ GenSnapshot(singleKey(Namespace, k)) + Cardinality(Bumping(k)) < MaxBulkGen
    /\ StartInv(p, 1, k)

InitBulkValid == InitWith([LocalOpts EXCEPT !.Codec = "bytes"], NoHist)

\* the goroutines that call GetBulk, and those that call Invalidate
BulkReaders == {1}
Invalidators == {2}

NextBulkValid ==
    \/ \E p \in BulkReaders :
        \/ \E keys \in Requests : StartGetBulk(p, 1, keys)
        \/ GbFetch(p)
        \/ GbValid(p)
        \/ GbDel(p)
        \/ GetFetch(p)
        \/ GetSnap(p)
        \/ GetHeal(p)
        \/ SetSnap(p)
        \/ SetStore(p)
    \/ \E p \in Invalidators :
        \/ \E k \in InvUserKeys : BulkInv(p, k)
        \/ InvBumpBegin(p)
        \/ InvBump(p)
        \/ InvDel(p)
    \/ \E b \in InjectedBulks :
          ProvInject(1, bulkKeySorted(Namespace, <<"u1", "u3">>), b)

SpecBulkValid == InitBulkValid /\ [][NextBulkValid]_vars

\* C14: a GetBulk that answered from the bulk entry it fetched took one
\* SnapshotMany after the fetch, and for every requested key the entry holds
\* an item of that key whose generation is the one SnapshotMany returned for
\* it; what it returns are the values of the entry for the requested keys and
\* no others, and it has called no Get.  (So an entry in which a requested key
\* is absent or stale yields no value.)
BulkUsedOnlyIfAllFresh ==
    \A p \in Procs :
        (res[p].op = "getbulk" /\ res[p].used) =>
            /\ SubSeq(res[p].calls, 1, 2) = <<"bulk.provider.Get", "gen.SnapshotMany">>
            /\ \A k \in Range(res[p].keys) :
                  \E i \in 1..Len(res[p].items) :
                      /\ res[p].items[i].Key = k
                      /\ res[p].items[i].Gen
                           = res[p].gens[singleKey(Namespace, k)]
            /\ DOMAIN res[p].out = Range(res[p].keys)
            /\ \A k \in DOMAIN res[p].out :
                  \E i \in 1..Len(res[p].items) :
                      /\ res[p].items[i].Key = k
                      /\ res[p].items[i].Payload = res[p].out[k]
            /\ res[p].missing = <<>>
            /\ res[p].gets = <<>>

\* a GetBulk answered from an entry that also holds an item nobody requested,
\* after the invalidated member's generation had moved to 1; and another
\* GetBulk fetched an entry and did not use it
ExtraIgnoredStaleRefused ==
    \E p \in Procs :
        /\ res[p].op = "getbulk" /\ res[p].used
        /\ Len(res[p].items) = 3
        /\ res[p].gens[singleKey(Namespace, "u3")] = 1
        /\ ~MapHas(res[p].out, "u4")

(***************************************************************************)
(* The bulk calls of one goroutine (SetBulkWithGens, then GetBulk, as the  *)
(* tests call them) while another goroutine invalidates a member, the      *)
(* single entries may expire and the provider's Del may fail.              *)
(***************************************************************************)
\* the members of the bulk entries written
BulkSets == {{"u1", "u3"}}

\* the observedGens a caller hands to SetBulkWithGens for the members ks: a
\* generation for every member
FullGens(ks) == [ks -> 0..MaxBulkGen]

NextBulk ==
    \/ \E p \in BulkReaders :
        \/ \E ks \in BulkSets : \E og \in FullGens(ks) :
              StartSetBulk(p, 1, ks, og, 0)
        \/ SbVerify(p)
        \/ SbStore(p)
        \/ \E keys \in Requests : StartGetBulk(p, 1, keys)
        \/ GbFetch(p)
        \/ GbValid(p)
        \/ GbDel(p)
        \/ GbDelErr(p)
        \/ GetFetch(p)
        \/ GetSnap(p)
        \/ GetHeal(p)
        \/ GetHealErr(p)
        \/ SetSnap(p)
        \/ SetStore(p)
    \/ \E p \in Invalidators :
        \/ \E k \in InvUserKeys : BulkInv(p, k)
        \/ InvBumpBegin(p)
        \/ InvBump(p)
        \/ InvDel(p)
    \/ \E k \in BulkUserKeys : ProvExpire(1, singleKey(Namespace, k))

SpecBulk == Init /\ [][NextBulk]_vars

\* what a GetBulk that fetched a bulk entry and found it invalid has called,
\* fired and returned
RejectedBulkAnswered(r) ==
    /\ SubSeq(r.calls, 1, 3)
         = <<"bulk.provider.Get", "gen.SnapshotMany", "bulk.provider.Del">>
    /\ Fired(r.hooks, "BulkRejected")
         = <<Hook("BulkRejected", Namespace,
                  Cardinality(Range(r.keys)), "invalid_or_stale")>>
    /\ r.gets = uniqSorted(r.keys)
    /\ r.missing = SelectSeq(r.keys, LAMBDA k : ~MapHas(r.out, k))
    /\ \A k \in DOMAIN r.out :
          /\ k \in Range(r.keys)
          /\ WriteObs(r.out[k]) >= r.g0m[k]
    /\ \A k \in Range(r.keys) \ InvUserKeys :
          ProvHas(1, singleKey(Namespace, k)) => MapHas(r.out, k)

\* a GetBulk that fetched a bulk entry and found it invalid has, right after
\* the validation, deleted the entry and fired one
\* BulkRejected(namespace, number of distinct requested keys,
\* "invalid_or_stale"); it answered from one Get per distinct key: every key is
\* either in the values or in missing, a value returned is not older than the
\* invalidations that had returned when the call began, and a member that is
\* never invalidated and has a single entry is returned; and no entry of the
\* bulk key is in the provider.
StaleBulkDroppedForSingles ==
    \A p \in BulkReaders :
        (res[p].op = "getbulk" /\ ~res[p].used /\ res[p].items # <<>>) =>
            /\ RejectedBulkAnswered(res[p])
            /\ ~ProvHas(1, res[p].bk)

\* C15: a GetBulk that fetched a bulk entry and found it invalid has, right
\* after the validation, called the provider's Del on the entry and fired one
\* BulkRejected(namespace, number of distinct requested keys,
\* "invalid_or_stale"), whether the Del succeeded or not; it answered from one
\* Get per distinct key: every key is either in the values or in missing, a
\* value returned is not older than the invalidations that had returned when
\* the call began, and a member that is never invalidated and has a single
\* entry is returned; and unless that Del failed (GetBulk discards its error),
\* no entry of the bulk key is in the provider.
StaleBulkDroppedUnlessDelFails ==
    \A p \in BulkReaders :
        (res[p].op = "getbulk" /\ ~res[p].used /\ res[p].items # <<>>) =>
            /\ RejectedBulkAnswered(res[p])
            /\ "bulk del failed" \notin Range(res[p].dropped) => ~ProvHas(1, res[p].bk)

\* the Del of a rejected bulk entry failed: GetBulk fired BulkRejected,
\* answered from the singles and returned, and the entry is still in the
\* provider
RejectedBulkLeftBehind ==
    \E p \in BulkReaders :
        /\ res[p].op = "getbulk" /\ ~res[p].used /\ res[p].items # <<>>
        /\ res[p].dropped = <<"bulk del failed">>
        /\ Fired(res[p].hooks, "BulkRejected") # <<>>
        /\ ProvHas(1, res[p].bk)

\* after an Invalidate of u3 had returned, a GetBulk of u3, u1, u3 rejected
\* the bulk entry and answered u1 from its single entry, with u3 missing
\* twice
StaleMemberMissing ==
    \E p \in BulkReaders :
        /\ res[p].op = "getbulk" /\ ~res[p].used /\ res[p].items # <<>>
        /\ res[p].keys = <<"u3", "u1", "u3">>
        /\ res[p].g0m["u3"] = 1
        /\ DOMAIN res[p].out = {"u1"}
        /\ res[p].missing = <<"u3", "u3">>
        /\ Fired(res[p].hooks, "BulkRejected")
             = <<Hook("BulkRejected", Namespace, 2, "invalid_or_stale")>>
        /\ res[p].dropped = <<>>
        /\ ~ProvHas(1, res[p].bk)

\* C16: if, when a GetBulk of the members S in any order, with or without
\* repeated keys, begins, the value store holds the bulk entry that
\* SetBulkWithGens stored for S at the members' current generations, and no
\* member's generation has changed since, then the GetBulk has derived the
\* bulk key of S, answered from that entry without any Get, returned a value
\* for every member with nothing missing, and the entry is still in the
\* value store.
BulkHitAnyOrder ==
    \A p \in BulkReaders :
        (/\ res[p].op = "getbulk"
         /\ res[p].fresh0 # <<>>
         /\ \A k \in DOMAIN res[p].fresh0 :
               GenSnapshot(singleKey(Namespace, k)) = res[p].fresh0[k])
        => /\ res[p].bk = bulkKeySorted(Namespace, <<"u1", "u3">>)
           /\ res[p].used
           /\ res[p].gets = <<>>
           /\ DOMAIN res[p].out = Range(res[p].keys)
           /\ res[p].missing = <<>>
           /\ ProvHas(1, res[p].bk)
           /\ prov[1][res[p].bk]
                = EncodeBulk(<<BulkItem("u1", res[p].fresh0["u1"], res[p].out["u1"]),
                               BulkItem("u3", res[p].fresh0["u3"], res[p].out["u3"])>>).bytes

\* a GetBulk of u3, u1, u3 that began when neither member had a single entry
\* hit the bulk entry stored at generation 1 of u3
ReorderedRequestHits ==
    \E p \in BulkReaders :
        /\ res[p].op = "getbulk" /\ res[p].used
        /\ res[p].keys = <<"u3", "u1", "u3">>
        /\ res[p].had = {}
        /\ res[p].fresh0 # <<>>
        /\ res[p].fresh0["u3"] = 1
        /\ DOMAIN res[p].out = {"u1", "u3"}
        /\ ProvHas(1, bulkKeySorted(Namespace, <<"u1", "u3">>))


(***************************************************************************)
(* Two goroutines calling SetBulkWithGens, GetBulk, SetWithGen, Get and    *)
(* Invalidate in any interleaving, the stores answering without errors.    *)
(***************************************************************************)
NextBulkRace ==
    \E p \in Procs :
        \/ \E ks \in BulkSets : \E og \in FullGens(ks) :
              StartSetBulk(p, 1, ks, og, 0)
        \/ SbVerify(p)
        \/ SbStore(p)
        \/ \E keys \in Requests : StartGetBulk(p, 1, keys)
        \/ GbFetch(p)
        \/ GbValid(p)
        \/ GbDel(p)
        \/ \E k \in InvUserKeys : StartGet(p, 1, k)
        \/ GetFetch(p)
        \/ GetSnap(p)
        \/ GetHeal(p)
        \/ \E k \in InvUserKeys, obs \in 0..MaxBulkGen : StartSet(p, 1, k, obs)
        \/ SetSnap(p)
        \/ SetStore(p)
        \/ \E k \in InvUserKeys : BulkInv(p, k)
        \/ InvBumpBegin(p)
        \/ InvBump(p)
        \/ InvDel(p)

SpecBulkRace == Init /\ [][NextBulkRace]_vars

\* C17: a GetBulk returns, for every key, a value whose observed generation
\* is at least the largest generation produced by the Invalidate calls of
\* that key that had returned when the GetBulk began, whether the value came
\* from the bulk entry or from a single entry; and a Get that hits returns a
\* value whose observed generation is at least the largest generation
\* produced by the Invalidate calls that had returned when the Get began,
\* whoever wrote the single entry (SetWithGen, the warming of GetBulk or the
\* seeding of SetBulkWithGens).
NoStaleBulkAfterInvalidate ==
    \A p \in Procs :
        /\ res[p].op = "getbulk" =>
              \A k \in DOMAIN res[p].out :
                  WriteObs(res[p].out[k]) >= res[p].g0m[k]
        /\ (res[p].op = "get" /\ res[p].ok) =>
              WriteObs(res[p].v) >= res[p].g0


\* a GetBulk that began before Invalidate(u3) returned used the bulk entry and
\* warmed the single entry of u3 at generation 0; a Get of u3 that began after
\* Invalidate(u3) had returned found a single entry of generation 0, written
\* by that warming or by the seeding of the one SetBulkWithGens made, and
\* returned a miss
WarmedStaleSingleMisses ==
    \E p, q \in Procs :
        /\ hist.nw = 1
        /\ res[q].op = "getbulk" /\ res[q].used
        /\ <<"u3", 0, defaultTTL>> \in Range(res[q].sets)
        /\ res[q].g0m["u3"] = 0
        /\ res[p].op = "get" /\ ~res[p].ok /\ res[p].g0 = 1
        /\ Fired(res[p].hooks, "SelfHealSingle")
             = <<Hook("SelfHealSingle", singleKey(Namespace, "u3"), 0,
                      "gen_mismatch")>>


(***************************************************************************)
(* SetBulkWithGens with observedGens that may lack members or be stale,    *)
(* while another goroutine invalidates a member.                           *)
(***************************************************************************)
\* the observedGens a caller may hand over for the members ks: a generation
\* for some of the members
PartialGens(ks) == UNION {[d -> 0..MaxBulkGen] : d \in SUBSET ks}

NextSeed ==
    \/ \E p \in BulkReaders :
        \/ \E ks \in BulkSets : \E og \in PartialGens(ks) :
              StartSetBulk(p, 1, ks, og, 0)
        \/ SbVerify(p)
        \/ SbStore(p)
        \/ SetSnap(p)
        \/ SetStore(p)
    \/ \E p \in Invalidators :
        \/ \E k \in InvUserKeys : BulkInv(p, k)
        \/ InvBumpBegin(p)
        \/ InvBump(p)
        \/ InvDel(p)

SpecSeed == Init /\ [][NextSeed]_vars

\* the result r of a SetBulkWithGens whose verifying loop met an item with no
\* entry in observedGens, or one whose Snapshot returned another generation
\* than the observed one
MetMismatch(r) ==
    /\ r.op = "setbulk"
    /\ \E k \in DOMAIN r.out :
          \/ ~MapHas(r.gens, k)
          \/ /\ MapHas(r.seen0, singleKey(Namespace, k))
             /\ r.seen0[singleKey(Namespace, k)] # r.gens[k]

\* what the call did apart from the members it seeded: no Set of a bulk
\* entry, one BulkRejected(namespace, number of items, "gen_mismatch"), every
\* SetWithGen at the member's own observed generation with the default single
\* TTL, no member seeded twice, nil returned
RejectedAndSeeded(r) ==
    /\ "bulk.provider.Set" \notin Range(r.calls)
    /\ Fired(r.hooks, "BulkRejected")
         = <<Hook("BulkRejected", Namespace, Cardinality(DOMAIN r.out),
                  "gen_mismatch")>>
    /\ \A i \in 1..Len(r.sets) :
          /\ MapHas(r.gens, r.sets[i][1])
          /\ r.sets[i] = <<r.sets[i][1], r.gens[r.sets[i][1]], defaultTTL>>
          /\ \A j \in 1..Len(r.sets) : r.sets[j][1] = r.sets[i][1] => j = i
    /\ r.ok /\ r.err = Nil

\* C18 as stated: a SetBulkWithGens that met a mismatch wrote no bulk entry,
\* fired BulkRejected(namespace, number of items, "gen_mismatch") once, seeded
\* all members of items through SetWithGen at their observed generations, and
\* returned nil.
MismatchSeedsAllMembers ==
    \A p \in BulkReaders :
        MetMismatch(res[p]) =>
            /\ RejectedAndSeeded(res[p])
            /\ {res[p].sets[i][1] : i \in 1..Len(res[p].sets)}
                 = DOMAIN res[p].out

\* C18, amended: a SetBulkWithGens that met a mismatch wrote no bulk entry,
\* fired BulkRejected(namespace, number of items, "gen_mismatch") once, seeded
\* through SetWithGen, at their observed generations, exactly the members that
\* have an entry in observedGens, and returned nil.
MismatchSeedsObservedMembers ==
    \A p \in BulkReaders :
        MetMismatch(res[p]) =>
            /\ RejectedAndSeeded(res[p])
            /\ {res[p].sets[i][1] : i \in 1..Len(res[p].sets)}
                 = DOMAIN res[p].out \cap DOMAIN res[p].gens

\* a SetBulkWithGens of u1 and u3 whose observedGens held only u3, at its
\* current generation 1, fired BulkRejected for 2 items and seeded u3 alone
OnlyObservedMemberSeeded ==
    \E p \in BulkReaders :
        /\ MetMismatch(res[p])
        /\ DOMAIN res[p].out = {"u1", "u3"}
        /\ res[p].gens = [k \in {"u3"} |-> 1]
        /\ res[p].sets = <<<<"u3", 1, defaultTTL>>>>
        /\ Fired(res[p].hooks, "BulkRejected")
             = <<Hook("BulkRejected", Namespace, 2, "gen_mismatch")>>
        /\ ProvHas(1, singleKey(Namespace, "u3"))
        /\ ~ProvHas(1, singleKey(Namespace, "u1"))


(***************************************************************************)
(* The cache with Options.DisableBulk set.                                 *)
(***************************************************************************)
InitNoBulk == InitWith([LocalOpts EXCEPT !.DisableBulk = TRUE], NoHist)

\* the ttl arguments of SetBulkWithGens: 0 (the default) and 7 minutes
SeedTTLs == {0, 7}

NextNoBulk ==
    \/ \E p \in BulkReaders :
        \/ \E ks \in BulkSets : \E og \in PartialGens(ks) : \E ttl \in SeedTTLs :
              StartSetBulk(p, 1, ks, og, ttl)
        \/ \E keys \in Requests : StartGetBulk(p, 1, keys)
        \/ GetFetch(p)
        \/ GetSnap(p)
        \/ GetHeal(p)
        \/ SetSnap(p)
        \/ SetStore(p)
    \/ \E p \in Invalidators :
        \/ \E k \in InvUserKeys : BulkInv(p, k)
        \/ InvBumpBegin(p)
        \/ InvBump(p)
        \/ InvDel(p)
    \/ \E k \in BulkUserKeys : ProvExpire(1, singleKey(Namespace, k))

SpecNoBulk == InitNoBulk /\ [][NextNoBulk]_vars

\* strings.HasPrefix
HasPrefix(s, prefix) ==
    Len(s) >= Len(prefix) /\ SubSeq(s, 1, Len(prefix)) = prefix

\* the steps of GetBulk and SetBulkWithGens that call the provider or the
\* generation store with the bulk key
BulkSteps == {"gb_fetch", "gb_valid", "gb_del", "sb_verify", "sb_store"}

\* C19: with DisableBulk set, no call reaches a step that reads or writes the
\* bulk key and no provider holds a key under "bulk:<namespace>:";
\* SetBulkWithGens makes one SetWithGen for each member that has an observed
\* generation, at that generation and with its ttl (the default single TTL if
\* the ttl is 0), and returns nil; GetBulk makes one Get per distinct
\* requested key and returns every requested key either in the values or in
\* missing, in the caller's order with duplicates.
DisableBulkTouchesNoBulkKey ==
    /\ \A i \in DOMAIN prov : \A k \in DOMAIN prov[i] :
          ~HasPrefix(k, "bulk:" \o Namespace \o ":")
    /\ \A p \in Procs :
        /\ pc[p] \notin BulkSteps
        /\ loc[p].fr.bk = "" /\ res[p].bk = ""
        /\ \A i \in 1..Len(res[p].calls) :
              res[p].calls[i] \in {"provider.Get", "provider.Set",
                                   "provider.Del", "gen.Snapshot", "gen.Bump"}
        /\ res[p].op = "setbulk" =>
              /\ res[p].ok /\ res[p].err = Nil
              /\ {res[p].sets[i] : i \in 1..Len(res[p].sets)}
                   = {<<k, res[p].gens[k],
                        IF res[p].ttl = 0 THEN defaultTTL ELSE res[p].ttl>> :
                      k \in DOMAIN res[p].out \cap DOMAIN res[p].gens}
              /\ Len(res[p].sets)
                   = Cardinality(DOMAIN res[p].out \cap DOMAIN res[p].gens)
        /\ res[p].op = "getbulk" =>
              /\ ~res[p].used
              /\ res[p].gets = SelectSeq(KeyOrder,
                                         LAMBDA k : k \in Range(res[p].keys))
              /\ DOMAIN res[p].out \subseteq Range(res[p].keys)
              /\ res[p].missing
                   = SelectSeq(res[p].keys, LAMBDA k : ~MapHas(res[p].out, k))
              /\ \A k \in DOMAIN res[p].out :
                    WriteObs(res[p].out[k]) >= res[p].g0m[k]

\* after SetBulkWithGens had seeded both members, a GetBulk of u3, u1, u3
\* made two Gets and returned both values, u3's written at generation 1
SinglesAnswerBulkRequest ==
    \E p \in BulkReaders :
        /\ res[p].op = "getbulk"
        /\ res[p].keys = <<"u3", "u1", "u3">>
        /\ res[p].gets = <<"u1", "u3">>
        /\ DOMAIN res[p].out = {"u1", "u3"}
        /\ WriteObs(res[p].out["u3"]) = 1
        /\ res[p].missing = <<>>


(***************************************************************************)
(* The cache with Options.Disabled set, over a provider that holds a       *)
(* single entry and a bulk entry another cache wrote.                      *)
(***************************************************************************)
\* what the provider holds: a single entry of u3 and a bulk entry of u1 and
\* u3, both of generation 0
DisabledProv ==
    [i \in Providers |->
        MapPut(MapPut(EmptyMap, singleKey(Namespace, "u3"),
                      EncodeSingle(0, BytesEncode(<<9, 0>>).bytes)),
               bulkKeySorted(Namespace, <<"u1", "u3">>),
               EncodeBulk(<<ItemAt("u1", 0), ItemAt("u3", 0)>>).bytes)]

InitDisabled ==
    /\ opts = [LocalOpts EXCEPT !.Disabled = TRUE]
    /\ store = NoStore
    /\ gens = EmptyMap
    /\ rdb = EmptyMap
    /\ now = 1
    /\ prov = DisabledProv
    /\ db = [k \in Keys |-> 0]
    /\ pc = [p \in Goroutines |-> IF p # Sweeper THEN "idle" ELSE "none"]
    /\ loc = [p \in Goroutines |-> NoLoc]
    /\ res = [p \in Goroutines |-> NoRes]
    /\ hist = NoHist

NextDisabled ==
    \E p \in Procs :
        \/ \E k \in BulkUserKeys : StartGet(p, 1, k)
        \/ \E keys \in Requests : StartGetBulk(p, 1, keys)
        \/ \E k \in BulkUserKeys, obs \in 0..MaxBulkGen : StartSet(p, 1, k, obs)
        \/ \E ks \in BulkSets : \E og \in FullGens(ks) : \E ttl \in SeedTTLs :
              StartSetBulk(p, 1, ks, og, ttl)
        \/ \E k \in BulkUserKeys : StartInv(p, 1, k)

SpecDisabled == InitDisabled /\ [][NextDisabled]_vars

\* C20: with Disabled set every call returns at once: Get a miss with a nil
\* error, GetBulk no value and every requested key in missing, SetWithGen,
\* SetBulkWithGens and Invalidate nil; no call of the provider or of the
\* generation store is made, no hook is fired, the provider holds what it
\* held and no generation has changed.
DisabledIsNoOp ==
    /\ prov = DisabledProv
    /\ gens = EmptyMap /\ rdb = EmptyMap /\ store = NoStore
    /\ \A k \in BulkUserKeys : GenSnapshot(singleKey(Namespace, k)) = 0
    /\ \A p \in Procs :
        /\ pc[p] = "idle"
        /\ res[p].calls = <<>> /\ res[p].hooks = <<>>
        /\ res[p].gets = <<>> /\ res[p].sets = <<>>
        /\ res[p].err = Nil
        /\ res[p].op = "get" => ~res[p].ok /\ res[p].v = <<>>
        /\ res[p].op = "getbulk" =>
              res[p].out = <<>> /\ res[p].missing = res[p].keys
        /\ res[p].op \in {"set", "setbulk", "inv"} => res[p].ok

\* a GetBulk of u3, u1, u3 returned all three keys missing and an Invalidate
\* returned nil, while the provider holds the entries of u3 and of the bulk
DisabledCallsReturned ==
    /\ res[1].op = "getbulk"
    /\ res[1].missing = <<"u3", "u1", "u3">>
    /\ res[2].op = "inv" /\ res[2].ok
    /\ ProvHas(1, singleKey(Namespace, "u3"))
    /\ ProvHas(1, bulkKeySorted(Namespace, <<"u1", "u3">>))


(***************************************************************************)
(* One goroutine warms a key (SnapshotGen, SetWithGen at the generation    *)
(* returned, Get) and invalidates it, while another goroutine invalidates  *)
(* it too.                                                                 *)
(***************************************************************************)
Warmers == {1}

NextWarm ==
    \/ \E p \in Warmers :
        \/ \E k \in Keys : StartWarm(p, 1, k)
        \/ SetObserved(p)
        \/ SetSnap(p)
        \/ SetStore(p)
        \/ GetFetch(p)
        \/ GetSnap(p)
        \/ GetHeal(p)
    \/ \E p \in Procs :
        \/ \E k \in Keys : StartInv(p, 1, k)
        \/ InvBumpBegin(p)
        \/ InvBump(p)
        \/ InvDel(p)

SpecWarm == Init /\ [][NextWarm]_vars

\* C21: the Get that follows SetWithGen(k, v, g), g being what SnapshotGen(k)
\* had just returned, returns (v, true, nil) whenever no Invalidate of k took
\* a step between the snapshot and the return of the Get (none stood between
\* its Bump and its Del at the snapshot, and the generation is still g),
\* whatever the generation g is.
WarmThenGetHits ==
    \A p \in Warmers :
        (/\ res[p].op = "get" /\ res[p].task = "warm"
         /\ res[p].quiet0
         /\ GenSnapshot(singleKey(Namespace, "u1")) = res[p].obs)
        => /\ res[p].ok /\ res[p].err = Nil
           /\ res[p].v = res[p].wrote
           /\ WriteObs(res[p].v) = res[p].obs

\* a key invalidated twice was warmed at generation 2 and read back
RewarmedAfterInvalidate ==
    \E p \in Warmers :
        /\ res[p].op = "get" /\ res[p].task = "warm" /\ res[p].ok
        /\ res[p].obs = 2 /\ res[p].quiet0
        /\ res[p].v = res[p].wrote
        /\ hist.invDone["u1"] = 2


(***************************************************************************)
(* internal/wire applied to frames and to damaged frames: a caller encodes *)
(* a single entry or a list of items, may damage the buffer, and decodes   *)
(* it with the decoder of either draft.                                    *)
(***************************************************************************)
WireCallers == {1}

\* generations of one, two and four significant bytes
WireGens == {0, 1, 258, 16777217}
WirePayloads == {<<>>, <<9>>, <<0, 255>>}

\* the items a frame of the model may hold, and the lists of at most two
\* items, lists that repeat a key included
FrameItems ==
    {BulkItem(k, g, v) : k \in BulkUserKeys, g \in {0, 258}, v \in {<<>>, <<9>>}}
WireItemLists ==
    {<<>>} \cup {<<a>> : a \in FrameItems}
           \cup {<<a, b>> : a \in FrameItems, b \in FrameItems}

\* the ways a frame is damaged: cut below the header, cut by its last byte,
\* another magic, version or kind, a count, key length or payload length
\* beyond the bytes that remain, the count 0x7FFFFFFF, a key length of 0, a
\* byte after the frame
Defects == {"short", "cut", "magic", "version", "kind", "count", "hugecount",
            "keylen0", "keylen", "vlen", "trailing"}

\* b with the bytes from offset off on replaced by bs
Patch(b, off, bs) ==
    [i \in 1..Len(b) |->
        IF i > off /\ i <= off + Len(bs) THEN bs[i - off] ELSE b[i]]

\* the frame b of a single entry (bulk = FALSE) or of items (bulk = TRUE),
\* damaged in the way d
Damaged(b, bulk, d) ==
    LET hdr  == IF bulk THEN 10 ELSE 18
        n    == FromBigEndian(Slice(b, 6, 10))
        klen == FromBigEndian(Slice(b, 10, 12))
    IN CASE d = "short"    -> SubSeq(b, 1, hdr - 1)
         [] d = "cut"      -> SubSeq(b, 1, Len(b) - 1)
         [] d = "magic"    -> Patch(b, 0, <<88>>)
         [] d = "version"  -> Patch(b, 4, <<2>>)
         [] d = "kind"     -> Patch(b, 5, <<IF bulk THEN kindSingle ELSE kindBulk>>)
         [] d = "count"    -> Patch(b, 6, BigEndian(n + 1, 4))
         [] d = "hugecount" -> Patch(b, 6, <<127, 255, 255, 255>>)
         [] d = "keylen0"  -> Patch(b, 10, <<0, 0>>)
         [] d = "keylen"   -> Patch(b, 10, BigEndian(Len(b), 2))
         [] d = "vlen"     -> IF bulk
                              THEN Patch(b, 10 + 2 + klen + 8, BigEndian(Len(b), 4))
                              ELSE Patch(b, 14, BigEndian(Len(b), 4))
         [] d = "trailing" -> b \o <<0>>

\* the defects a frame can take: the three about items need a bulk frame, the
\* two about an item one that holds an item
CanDamage(r, d) ==
    /\ r.op \in {"EncodeSingle", "EncodeBulk"}
    /\ r.defect = "frame"
    /\ d \in {"count", "hugecount"} => r.op = "EncodeBulk"
    /\ d \in {"keylen0", "keylen"} => r.op = "EncodeBulk" /\ r.items # <<>>
    /\ d = "vlen" => r.op = "EncodeSingle" \/ r.items # <<>>

CallEncodeSingle(p, gen, payload) ==
    /\ pc[p] = "idle"
    /\ Finish(p, [NoRes EXCEPT !.op = "EncodeSingle", !.obs = gen,
                               !.wrote = payload, !.defect = "frame",
                               !.raw = EncodeSingle(gen, payload)])
    /\ UNCHANGED <<opts, store, gens, rdb, now, prov, db, hist>>

CallEncodeBulk(p, items) ==
    /\ pc[p] = "idle"
    /\ Finish(p, [NoRes EXCEPT !.op = "EncodeBulk", !.items = items,
                               !.defect = "frame",
                               !.err = IF EncodeBulk(items).err THEN "wire"
                                       ELSE Nil,
                               !.raw = EncodeBulk(items).bytes])
    /\ UNCHANGED <<opts, store, gens, rdb, now, prov, db, hist>>

Damage(p, d) ==
    /\ pc[p] = "idle"
    /\ CanDamage(res[p], d)
    /\ Finish(p, [res[p] EXCEPT !.defect = d,
                                !.raw = Damaged(res[p].raw,
                                                res[p].op = "EncodeBulk", d)])
    /\ UNCHANGED <<opts, store, gens, rdb, now, prov, db, hist>>

\* what a decoder of single entries returned for the buffer of r
SingleDecoded(r, name, d) ==
    [r EXCEPT !.op = name, !.err = IF d.err THEN "corrupt" ELSE Nil,
              !.gen = d.gen, !.v = d.payload]

\* what a decoder of bulk entries returned for the buffer of r
BulkDecoded(r, name, d) ==
    [r EXCEPT !.op = name, !.err = IF d.err THEN "corrupt" ELSE Nil,
              !.out = d.items]

CallDecodeSingle(p) ==
    /\ pc[p] = "idle" /\ res[p].op = "EncodeSingle"
    /\ Finish(p, SingleDecoded(res[p], "DecodeSingle", DecodeSingle(res[p].raw)))
    /\ UNCHANGED <<opts, store, gens, rdb, now, prov, db, hist>>

CallDecodeSingleStrict(p) ==
    /\ pc[p] = "idle" /\ res[p].op = "EncodeSingle"
    /\ Finish(p, SingleDecoded(res[p], "DecodeSingleStrict",
                               DecodeSingleStrict(res[p].raw)))
    /\ UNCHANGED <<opts, store, gens, rdb, now, prov, db, hist>>

\* DecodeBulk of internal/wire/wire.go; the end of the process in its make
\* is recorded as the error "fatal" of a call that returned nothing
CallDecodeBulk(p) ==
    /\ pc[p] = "idle" /\ res[p].op = "EncodeBulk"
    /\ \E fatal \in DecodeBulkFatal(res[p].raw) :
          Finish(p, IF fatal
                    THEN [res[p] EXCEPT !.op = "DecodeBulk", !.err = "fatal",
                                        !.out = <<>>]
                    ELSE BulkDecoded(res[p], "DecodeBulk",
                                     DecodeBulk(res[p].raw)))
    /\ UNCHANGED <<opts, store, gens, rdb, now, prov, db, hist>>

CallDecodeBulkStrict(p) ==
    /\ pc[p] = "idle" /\ res[p].op = "EncodeBulk"
    /\ Finish(p, BulkDecoded(res[p], "DecodeBulkStrict",
                             DecodeBulkStrict(res[p].raw)))
    /\ UNCHANGED <<opts, store, gens, rdb, now, prov, db, hist>>

NextWire ==
    \E p \in WireCallers :
        \/ \E g \in WireGens, v \in WirePayloads : CallEncodeSingle(p, g, v)
        \/ \E items \in WireItemLists : CallEncodeBulk(p, items)
        \/ \E d \in Defects : Damage(p, d)
        \/ CallDecodeSingle(p)
        \/ CallDecodeSingleStrict(p)
        \/ CallDecodeBulk(p)
        \/ CallDecodeBulkStrict(p)

SpecWire == Init /\ [][NextWire]_vars

\* C22: either draft's DecodeSingle returns, for an undamaged
\* EncodeSingle(gen, payload), exactly gen and payload and no error; either
\* draft's DecodeBulk returns, for an undamaged EncodeBulk(items), the same
\* items in the same order, repeated keys included, and no error.
WireRoundTrip ==
    \A p \in WireCallers :
        /\ (res[p].op \in {"DecodeSingle", "DecodeSingleStrict"}
              /\ res[p].defect = "frame")
           => /\ res[p].err = Nil
              /\ res[p].gen = res[p].obs
              /\ res[p].v = res[p].wrote
        /\ (res[p].op \in {"DecodeBulk", "DecodeBulkStrict"}
              /\ res[p].defect = "frame")
           => /\ res[p].err = Nil
              /\ res[p].out = res[p].items

\* two items of the same key, one at a generation of two bytes with an empty
\* payload, came back from the strict decoder as they were
RepeatedKeyRoundTrip ==
    \E p \in WireCallers :
        /\ res[p].op = "DecodeBulkStrict" /\ res[p].defect = "frame"
        /\ res[p].items = <<BulkItem("u3", 258, <<>>), BulkItem("u3", 0, <<9>>)>>
        /\ res[p].out = res[p].items
        /\ Len(res[p].raw) = 10 + (2 + 2 + 8 + 4) + (2 + 2 + 8 + 4 + 1)


\* the same asked of DecodeSingle and DecodeBulk of internal/wire/wire.go, the
\* draft the cache is not built with (it does not hold: a trailing byte is
\* ignored, and the allocation of a huge count can end the process)
DamagedFramesRejected ==
    \A p \in WireCallers :
        (res[p].op \in {"DecodeSingle", "DecodeBulk"}
           /\ res[p].defect \in Defects)
        => /\ res[p].err = "corrupt"
           /\ res[p].gen = 0 /\ res[p].v = <<>> /\ res[p].out = <<>>

\* C23: for every damaged frame (cut below the header or by a byte, wrong
\* magic, version or kind, a count or a length beyond the remaining bytes, a
\* key length of 0, a trailing byte) DecodeSingle and DecodeBulk of the wire
\* package the cache is built with return ErrCorrupt and nothing else:
\* generation 0, no payload, no items.
DamagedFramesRejectedStrict ==
    \A p \in WireCallers :
        (res[p].op \in {"DecodeSingleStrict", "DecodeBulkStrict"}
           /\ res[p].defect \in Defects)
        => /\ res[p].err = "corrupt"
           /\ res[p].gen = 0 /\ res[p].v = <<>> /\ res[p].out = <<>>

\* of the decoders of internal/wire/wire.go every damaged frame but the one
\* with a trailing byte is rejected, unless the process ends in the
\* allocation of a count of 0x7FFFFFFF
DamagedFramesRejectedButTrailing ==
    \A p \in WireCallers :
        (res[p].op \in {"DecodeSingle", "DecodeBulk"}
           /\ res[p].defect \in Defects \ {"trailing"})
        => /\ \/ res[p].err = "corrupt"
              \/ res[p].err = "fatal" /\ res[p].defect = "hugecount"
           /\ res[p].gen = 0 /\ res[p].v = <<>> /\ res[p].out = <<>>

\* DecodeBulk of internal/wire/wire.go met the header CASC 01 02 7F FF FF FF
\* with no item behind it, and the process ended in its make
HugeCountWasFatal ==
    \E p \in WireCallers :
        /\ res[p].op = "DecodeBulk" /\ res[p].defect = "hugecount"
        /\ res[p].raw = magic4 \o <<version, kindBulk>> \o <<127, 255, 255, 255>>
        /\ res[p].err = "fatal"

\* DecodeBulk of the wire package the cache is built with was given the frame
\* of two items followed by one byte, and returned ErrCorrupt and no item
TrailingBytesRejected ==
    \E p \in WireCallers :
        /\ res[p].op = "DecodeBulkStrict" /\ res[p].defect = "trailing"
        /\ Len(res[p].items) = 2
        /\ res[p].raw = EncodeBulk(res[p].items).bytes \o <<0>>
        /\ res[p].err = "corrupt" /\ res[p].out = <<>>


(***************************************************************************)
(* EncodeBulk of both drafts on keys of length 0, 1, 0xFFFF and 0x10000.   *)
(***************************************************************************)
LengthItems ==
    {BulkItem(k, 1, v) : k \in LengthKeys \cup {"u1"}, v \in {<<>>, <<120>>}}
LengthItemLists ==
    {<<>>} \cup {<<a>> : a \in LengthItems}
           \cup {<<a, b>> : a \in LengthItems, b \in LengthItems}

\* EncodeBulk of internal/wire/wire.go; a panic is recorded as the error
\* "panic" of a call that returned nothing
CallEncodeBulkPanics(p, items) ==
    /\ pc[p] = "idle"
    /\ Finish(p, [NoRes EXCEPT !.op = "EncodeBulkPanics", !.items = items,
                               !.defect = "frame",
                               !.err = IF EncodeBulkPanics(items).panic
                                       THEN "panic" ELSE Nil,
                               !.raw = EncodeBulkPanics(items).bytes])
    /\ UNCHANGED <<opts, store, gens, rdb, now, prov, db, hist>>

NextKeyLen ==
    \E p \in WireCallers :
        \/ \E items \in LengthItemLists : CallEncodeBulk(p, items)
        \/ \E items \in LengthItemLists : CallEncodeBulkPanics(p, items)
        \/ CallDecodeBulkStrict(p)

SpecKeyLen == Init /\ [][NextKeyLen]_vars

\* the items hold a key of length 0 or of more than 65535 bytes
HasBadKey(items) ==
    \E i \in 1..Len(items) :
        Len(KeyText[items[i].Key]) \notin 1..65535

\* the number of bytes of the frame of items
FrameLen(items) ==
    10 + 14 * Len(items)
       + (IF Len(items) >= 1
          THEN Len(KeyText[items[1].Key]) + Len(items[1].Payload) ELSE 0)
       + (IF Len(items) >= 2
          THEN Len(KeyText[items[2].Key]) + Len(items[2].Payload) ELSE 0)

\* what the claim asks of the outcome r of an EncodeBulk
KeyLengthChecked(r) ==
    IF HasBadKey(r.items)
    THEN r.err = "wire" /\ r.raw = <<>>
    ELSE r.err = Nil /\ hasMagic(r.raw) /\ Len(r.raw) = FrameLen(r.items)

\* the same asked of EncodeBulk of internal/wire/wire.go, the draft the cache
\* is not built with (it does not hold: that function panics)
KeyLengthIsAnError ==
    \A p \in WireCallers :
        res[p].op = "EncodeBulkPanics" => KeyLengthChecked(res[p])

\* C24: EncodeBulk of the wire package the cache is built with returns an
\* error and no bytes, and does not panic, when some key has length 0 or more
\* than 65535, and succeeds for every key length from 1 through 65535; the
\* frame of a key of 65535 bytes decodes to the items encoded.
KeyLengthIsAnErrorInDraft ==
    \A p \in WireCallers :
        /\ res[p].op = "EncodeBulk" => KeyLengthChecked(res[p])
        /\ res[p].op = "DecodeBulkStrict" /\ ~HasBadKey(res[p].items) =>
              res[p].err = Nil /\ res[p].out = res[p].items


\* EncodeBulk was given an item whose key has 65536 bytes behind one whose key
\* has 65535, and returned an error and no byte
TooLongKeyRefused ==
    \E p \in WireCallers :
        /\ res[p].op = "EncodeBulk"
        /\ Len(res[p].items) = 2
        /\ res[p].items[1].Key = "longest" /\ res[p].items[2].Key = "too long"
        /\ Len(KeyText["too long"]) = maxKeyLen + 1
        /\ res[p].err = "wire" /\ res[p].raw = <<>>


(***************************************************************************)
(* The bulk storage key of two requests, by both ways of building it.      *)
(***************************************************************************)
SetKeys == {"a", "b", "a,b"}
SetKeyLists ==
    {<<>>} \cup {<<a>> : a \in SetKeys} \cup {<<a, b>> : a \in SetKeys, b \in SetKeys}

\* util.BulkKey of internal/util/keys.go; key is the string that is hashed
CallBulkKey(p, keys) ==
    /\ pc[p] = "idle"
    /\ Finish(p, [NoRes EXCEPT !.op = "BulkKey", !.keys = keys,
                               !.key = Join(sortStrings(keys), ","),
                               !.bk = BulkKey("bulk:" \o Namespace, keys)])
    /\ UNCHANGED <<opts, store, gens, rdb, now, prov, db, hist>>

\* c.bulkKeySorted(uniqSorted(keys)), as GetBulk and SetBulkWithGens build the
\* bulk key; key is the buffer that is hashed
CallBulkKeySorted(p, keys) ==
    /\ pc[p] = "idle"
    /\ Finish(p, [NoRes EXCEPT !.op = "bulkKeySorted", !.keys = keys,
                               !.key = LengthPrefixed(uniqSorted(keys)),
                               !.bk = bulkKeySorted(Namespace, uniqSorted(keys))])
    /\ UNCHANGED <<opts, store, gens, rdb, now, prov, db, hist>>

NextBulkKey ==
    \E p \in Procs :
        \/ \E keys \in SetKeyLists : CallBulkKey(p, keys)
        \/ \E keys \in SetKeyLists : CallBulkKeySorted(p, keys)

SpecBulkKey == Init /\ [][NextBulkKey]_vars

\* two bulk keys built the way `how`: equal for equal key sets, and the hashed
\* strings differ for different key sets
SetDecidesKey(how) ==
    \A p \in Procs, q \in Procs :
        res[p].op = how /\ res[q].op = how =>
            /\ Range(res[p].keys) = Range(res[q].keys) => res[p].bk = res[q].bk
            /\ Range(res[p].keys) # Range(res[q].keys) => res[p].key # res[q].key

\* the same asked of util.BulkKey of internal/util/keys.go, the draft the
\* cache is not built with (it does not hold: the keys are joined with ",")
BulkKeyIsInjective == SetDecidesKey("BulkKey")

\* C25: the bulk storage key the cache builds, util.BulkKeySorted of
\* uniqSorted(keys), is the same for every permutation of the keys and with
\* or without duplicates, and two different key sets never give the same
\* buffer to hash.
BulkKeySortedIsInjective == SetDecidesKey("bulkKeySorted")

\* the requests ["a,b"] and ["b", "a", ...] got different buffers to hash,
\* and so different bulk keys
CommaKeyKeptApart ==
    \E p \in Procs, q \in Procs :
        /\ res[p].op = "bulkKeySorted" /\ res[q].op = "bulkKeySorted"
        /\ res[p].keys = <<"a,b">> /\ res[q].keys = <<"b", "a">>
        /\ res[p].key = "0003a,b" /\ res[q].key = "0001a0001b"
        /\ res[p].bk # res[q].bk

\* of util.BulkKey of internal/util/keys.go on requests without duplicates:
\* permutations give the same key (the part of the claim that the joined
\* string does satisfy)
BulkKeyIgnoresOrder ==
    \A p \in Procs, q \in Procs :
        /\ res[p].op = "BulkKey" /\ res[q].op = "BulkKey"
        /\ Len(res[p].keys) = 2 /\ Len(res[q].keys) = 2
        /\ res[p].keys[1] = res[q].keys[2] /\ res[p].keys[2] = res[q].keys[1]
        => res[p].bk = res[q].bk


(***************************************************************************)
(* Two caches of different namespaces over one provider and one generation *)
(* store: goroutine 1 writes and invalidates through the cache of          *)
(* namespace "a", goroutine 2 reads through the cache of namespace "a:b".  *)
(***************************************************************************)
NsWriters == {1}
NsReaders == {2}
NamespaceOf == [r \in Replicas |-> IF r = 1 THEN "a" ELSE "a:b"]

InitNamespace == InitWith([LocalOpts EXCEPT !.nsOf = NamespaceOf], NoHist)

NextNamespace ==
    \/ \E p \in NsWriters, k \in ColonKeys, obs \in 0..MaxGen : StartSet(p, 1, k, obs)
    \/ \E p \in NsWriters : SetSnap(p)
    \/ \E p \in NsWriters : SetStore(p)
    \/ \E p \in NsWriters, k \in ColonKeys : StartInv(p, 1, k)
    \/ \E p \in NsWriters : InvBumpBegin(p)
    \/ \E p \in NsWriters : InvBump(p)
    \/ \E p \in NsWriters : InvDel(p)
    \/ \E p \in NsReaders, k \in ColonKeys : StartGet(p, 2, k)
    \/ \E p \in NsReaders : GetFetch(p)
    \/ \E p \in NsReaders : GetSnap(p)
    \/ \E p \in NsReaders : GetHeal(p)

SpecNamespace == InitNamespace /\ [][NextNamespace]_vars

\* C26 as stated: two distinct pairs (namespace, user key) have distinct single
\* storage keys, user keys holding a ':' included, and so nothing done through
\* the cache of namespace "a" changes what Get returns through the cache of
\* namespace "a:b": nothing was written through that cache, and its Gets miss.
NamespacesIsolated ==
    /\ \A r1 \in Replicas, r2 \in Replicas, k1 \in ColonKeys, k2 \in ColonKeys :
          <<opts.nsOf[r1], k1>> # <<opts.nsOf[r2], k2>>
              => singleKey(opts.nsOf[r1], k1) # singleKey(opts.nsOf[r2], k2)
    /\ \A p \in NsReaders : res[p].op = "get" => ~res[p].ok

\* the pairs whose storage keys do differ are isolated: a Get of the key "b:c"
\* through namespace "a:b" finds no entry, so it never gets past its fetch
DistinctKeysIsolated ==
    \A p \in NsReaders :
        loc[p].key = "b:c" => pc[p] = "get_fetch"


(***************************************************************************)
(* LocalGenStore.Close called by two goroutines, once or again, while the  *)
(* sweeper of NewLocalGenStore runs.                                       *)
(***************************************************************************)
InitClose ==
    \E cleanupInterval \in 0..1 :
        InitStore(LocalOpts, NewLocalGenStore(cleanupInterval, MaxRetention), NoHist)

NextClose ==
    \/ \E p \in Procs : StartClose(p)
    \/ \E p \in Procs : CloseLock(p)
    \/ \E p \in Procs : CloseStop(p)
    \/ \E p \in Procs : CloseWait(p)
    \/ \E p \in Procs, k \in BumpUserKeys : StartBump(p, k)
    \/ \E p \in Procs : BumpLock(p)
    \/ \E p \in Procs : BumpRead(p)
    \/ \E p \in Procs : BumpWrite(p)
    \/ \E p \in Procs : BumpUnlock(p)
    \/ CleanLock(Sweeper)
    \/ CleanScan(Sweeper)
    \/ SweeperEvalTicker
    \/ SweeperEvalStopCh
    \/ SweeperTick
    \/ SweeperStop
    \/ Tick

SpecClose == InitClose /\ [][NextClose]_vars

\* no goroutine has panicked
NoPanic == \A g \in Goroutines : pc[g] # "panic"

\* every Close that returned returned nil, and the one that closed the stop
\* channel returned after the sweeper had
ClosedAfterSweeper ==
    \A p \in Procs :
        res[p].op = "close" =>
            /\ res[p].ok /\ res[p].err = Nil
            /\ res[p].task = "stop" => pc[Sweeper] = "done"

\* C27 as stated: Close may be called any number of times, one after another
\* or at once; nothing panics, the call that stops the sweeper returns only
\* after the sweeper goroutine has exited (no sweep runs after it), and every
\* other call returns nil.
CloseIsIdempotent == NoPanic /\ ClosedAfterSweeper

\* apart from the panic of the sweeper, Close does what the claim says
CloseIsIdempotentUnlessPanic == ClosedAfterSweeper


(***************************************************************************)
(* Get over stores that fail: the provider's Get and Del and the           *)
(* generation store's Snapshot may return an error, and the provider may   *)
(* hold injected bytes.                                                    *)
(***************************************************************************)
NextGetFail ==
    \/ NextHeal
    \/ \E p \in Procs : GetFetchErr(p)
    \/ \E p \in Procs : GetSnapErr(p)

SpecGetFail == InitHeal /\ [][NextGetFail]_vars

\* a Get that returned an error returned the error of its fetch, ok = false and
\* the zero value, having called nothing else
ErrorIsOfFetch(r) ==
    r.err # Nil =>
        /\ r.err = "provider" /\ ~r.ok /\ r.v = <<>>
        /\ r.calls = <<"provider.Get">> /\ r.hooks = <<>>

\* C28 as stated: Get returns an error only when its fetch failed, passing it
\* through with ok = false; a Get that met a corrupt entry, a generation
\* mismatch, an undecodable value, a failed snapshot or a failed self-heal
\* delete (each leaves a hook) returns (zero, false, nil).
GetErrorOnlyFromFetch ==
    \A p \in Procs :
        res[p].op = "get" =>
            /\ ErrorIsOfFetch(res[p])
            /\ res[p].hooks # <<>> =>
                  ~res[p].ok /\ res[p].v = <<>> /\ res[p].err = Nil

\* the same, a failed snapshot apart: a Get that healed returns
\* (zero, false, nil), and a Get whose snapshot failed returns no error
GetErrorOnlyFromFetchAndNilOtherwise ==
    \A p \in Procs :
        res[p].op = "get" =>
            /\ ErrorIsOfFetch(res[p])
            /\ res[p].hooks # <<>> => res[p].err = Nil
            /\ Fired(res[p].hooks, "SelfHealSingle") # <<>> =>
                  ~res[p].ok /\ res[p].v = <<>>


(***************************************************************************)
(* Writers over a provider whose Set may fail or refuse and a codec whose  *)
(* Encode refuses the values of the second write, with bulk entries        *)
(* enabled or disabled.                                                    *)
(***************************************************************************)
SetCallers == {1}

InitSetFail ==
    \E d \in BOOLEAN :
        InitWith([LocalOpts EXCEPT !.Codec = "refusing", !.DisableBulk = d],
                 NoHist)

NextSetFail ==
    \E p \in SetCallers :
        \/ \E k \in Keys, obs \in 0..MaxBulkGen : StartSet(p, 1, k, obs)
        \/ SetSnap(p)
        \/ SetStore(p)
        \/ SetStoreErr(p)
        \/ SetStoreRejected(p)
        \/ \E ks \in BulkSets :
              \E g \in PartialGens(ks), ttl \in SeedTTLs :
                 StartSetBulk(p, 1, ks, g, ttl)
        \/ SbVerify(p)
        \/ SbStore(p)
        \/ SbStoreErr(p)
        \/ SbStoreRejected(p)

SpecSetFail == InitSetFail /\ [][NextSetFail]_vars

\* a step in which SetWithGen, called by the client, or SetBulkWithGens meets
\* an error or a refusal of the entry it writes: the error is what the call
\* returns; after a refusal ProviderSetRejected is fired and nil returned
WriteErrorsReturned ==
    \A p \in SetCallers :
        /\ (pc[p] = "set_snap" /\ loc[p].task # "bulk" /\ pc'[p] # "set_snap"
              /\ CasOk(GenSnapshot(K(p)), loc[p].obs)
              /\ RefusingEncode(loc[p].val).err)
             => pc'[p] = "idle" /\ res'[p].op = "set" /\ res'[p].err = "codec"
        /\ (pc[p] = "set_store" /\ loc[p].task # "bulk" /\ pc'[p] # "set_store")
             => /\ pc'[p] = "idle" /\ res'[p].op = "set"
                /\ IF SetStoreErr(p) THEN res'[p].err = "provider"
                   ELSE res'[p].err = Nil
                /\ SetStoreRejected(p) =>
                      res'[p].hooks = <<Hook("ProviderSetRejected", K(p), 0,
                                             "single")>>
        /\ (pc[p] = "sb_verify" /\ pc'[p] # "sb_verify"
              /\ \A k \in DOMAIN loc[p].fr.vals :
                    ~GenMismatch(loc[p].fr.obsGens, k,
                                 GenSnapshot(singleKey(Namespace, k)))
              /\ \E x \in DOMAIN loc[p].fr.vals :
                    RefusingEncode(loc[p].fr.vals[x]).err)
             => pc'[p] = "idle" /\ res'[p].op = "setbulk"
                               /\ res'[p].err = "codec"
        /\ (pc[p] = "sb_store" /\ pc'[p] # "sb_store") =>
              IF SbStoreErr(p)
              THEN pc'[p] = "idle" /\ res'[p].op = "setbulk"
                                   /\ res'[p].err = "provider"
              ELSE /\ pc'[p] = "set_snap"
                   /\ SbStoreRejected(p) =>
                         Fired(loc'[p].fr.hooks, "ProviderSetRejected")
                             = <<Hook("ProviderSetRejected", loc[p].fr.bk, 0,
                                      "bulk")>>

\* every error met while seeding single entries was returned
NoErrorDropped ==
    \A p \in SetCallers :
        res[p].op = "setbulk" /\ res[p].dropped # <<>> => res[p].err # Nil

\* the errors met while seeding single entries are dropped: the call returns
\* nil; and a call that returns an error has seeded nothing
SeedingErrorsDropped ==
    \A p \in SetCallers :
        res[p].op = "setbulk" =>
            /\ res[p].dropped # <<>> => res[p].err = Nil
            /\ res[p].err # Nil =>
                  res[p].sets = <<>> /\ res[p].err \in {"codec", "provider"}
            /\ ~bulkEnabled => res[p].err = Nil

\* C29 as stated: SetWithGen and SetBulkWithGens return every encode error and
\* every error of the provider's Set met while they write, the single entry,
\* the bulk entry and the seeded single entries alike, with bulk entries
\* enabled or disabled; a refusal is answered with ProviderSetRejected and nil.
AllWriteErrorsReturned == [][WriteErrorsReturned]_vars /\ []NoErrorDropped

\* C29, amended: they return every encode error and every error of the
\* provider's Set of the entry they write themselves (the single entry of
\* SetWithGen, the bulk entry of SetBulkWithGens); the errors of the calls of
\* SetWithGen by which SetBulkWithGens seeds single entries are dropped, so
\* that with bulk entries disabled SetBulkWithGens always returns nil.
OwnWriteErrorsReturned == [][WriteErrorsReturned]_vars /\ []SeedingErrorsDropped

\* the provider refused a bulk entry and then failed on a seeded single entry:
\* SetBulkWithGens returned nil
RefusedThenSeedFailed ==
    \E p \in SetCallers :
        /\ res[p].op = "setbulk" /\ res[p].err = Nil
        /\ res[p].dropped = <<"provider">>
        /\ Fired(res[p].hooks, "ProviderSetRejected")
              = <<Hook("ProviderSetRejected", res[p].bk, 0, "bulk")>>
        /\ Len(res[p].sets) = 2


(***************************************************************************)
(* Everything the cache writes: SetWithGen called by the client, GetBulk   *)
(* warming single entries, SetBulkWithGens writing the bulk entry and      *)
(* seeding single entries, while another goroutine invalidates.            *)
(***************************************************************************)
NextFrames ==
    \/ NextBulk
    \/ \E p \in BulkReaders, k \in BulkUserKeys, obs \in 0..MaxBulkGen :
          StartSet(p, 1, k, obs)

SpecFrames == Init /\ [][NextFrames]_vars

\* b starts with the magic and the version
FrameHeader(b) == hasMagic(b) /\ Len(b) >= 6 /\ b[5] = version

\* b is one single frame whose generation is the one its writer observed
SingleFrameOf(b) ==
    /\ b[6] = kindSingle
    /\ ~DecodeSingleStrict(b).err
    /\ DecodeSingleStrict(b).gen = WriteObs(DecodeSingleStrict(b).payload)

\* b is one bulk frame whose items carry the generations its writer observed
BulkFrameOf(b) ==
    /\ b[6] = kindBulk
    /\ ~DecodeBulkStrict(b).err
    /\ \A i \in 1..Len(DecodeBulkStrict(b).items) :
          DecodeBulkStrict(b).items[i].Gen
              = WriteObs(DecodeBulkStrict(b).items[i].Payload)

\* C30: every entry of the provider is a frame with the magic "CASC" and
\* version 1, of kind 1 under a key "single:<ns>:..." and of kind 2 under a
\* key "bulk:<ns>:...", and the generation it embeds for a key is the
\* observed generation its writer passed (which every value of the model
\* names).
WrittenFramesWellFormed ==
    \A i \in Providers :
        \A k \in DOMAIN prov[i] :
            /\ FrameHeader(prov[i][k])
            /\ IF HasPrefix(k, "single:" \o Namespace \o ":")
               THEN SingleFrameOf(prov[i][k])
               ELSE /\ HasPrefix(k, "bulk:" \o Namespace \o ":")
                    /\ BulkFrameOf(prov[i][k])

\* the provider holds a bulk entry and a single entry written at generation 1
FramesOfGenerationOne ==
    /\ ProvHas(1, bulkKeySorted(Namespace, <<"u1", "u3">>))
    /\ DecodeBulkStrict(prov[1][bulkKeySorted(Namespace, <<"u1", "u3">>)]).items[2].Gen = 1
    /\ ProvHas(1, singleKey(Namespace, "u3"))
    /\ DecodeSingleStrict(prov[1][singleKey(Namespace, "u3")]).gen = 1


(***************************************************************************)
(* Goroutine 1 reads generations through cache.SnapshotGens and through    *)
(* LocalGenStore.SnapshotMany while goroutine 2 bumps.                     *)
(***************************************************************************)
GenReaders == {1}
GenBumpers == {2}
\* the user keys handed to SnapshotGens: none, the bumped key, and a key that
\* is never bumped given twice around the bumped key
UserKeyLists == {<<>>, <<"u1">>, <<"u2", "u1", "u2">>}

NextSnapshotGens ==
    \/ \E p \in GenReaders :
        \/ \E keys \in UserKeyLists : StartSnapshotGens(p, 1, keys)
        \/ SgMany(p)
        \/ SgManyErr(p)
        \/ SgOne(p)
        \/ SgOneErr(p)
        \/ \E ks \in KeyLists : StartSnapshotMany(p, ks)
        \/ ManyRLock(p)
        \/ ManyRead(p)
        \/ ManyRUnlock(p)
    \/ \E p \in GenBumpers :
        \/ \E k \in BumpUserKeys : StartBump(p, k)
        \/ BumpLock(p)
        \/ BumpRead(p)
        \/ BumpWrite(p)
        \/ BumpUnlock(p)

SpecSnapshotGens == InitBump /\ [][NextSnapshotGens]_vars

\* what a returned SnapshotGens and a returned SnapshotMany hold: one entry
\* for every distinct key asked for and no other; for SnapshotGens what
\* SnapshotGen reports for the key: its generation, which lies between the one
\* the key had when the call began and the one it has at the return (the same
\* when no Bump intervened), or 0 after a Snapshot of the fallback failed and
\* fired GenSnapshotError(1, err); without such a hook every entry is the
\* generation
SnapshotsExact ==
    \A p \in GenReaders :
        /\ res[p].op = "snapshot_gens" =>
              /\ DOMAIN res[p].out = Range(res[p].keys)
              /\ \A k \in Range(res[p].keys) :
                    \/ /\ res[p].seen0[k] <= res[p].out[k]
                       /\ res[p].out[k] <= res[p].gens[k]
                    \/ /\ res[p].out[k] = 0
                       /\ res[p].hooks # <<>>
              /\ Cardinality({k \in Range(res[p].keys) :
                                  res[p].out[k] < res[p].seen0[k]})
                    <= Len(res[p].hooks)
              /\ Len(res[p].hooks) <= Len(res[p].keys)
              /\ \A i \in 1..Len(res[p].hooks) :
                    res[p].hooks[i] = Hook("GenSnapshotError", "", 1, "")
        /\ res[p].op = "snapshot_many" =>
              /\ DOMAIN res[p].out = Range(res[p].keys)
              /\ \A sk \in Range(res[p].keys) :
                    /\ res[p].out[sk] <= LocalSnapshot(gens, sk)
                    /\ ~MapHas(gens, sk) => res[p].out[sk] = 0

\* no step of SnapshotGens or SnapshotMany changes a generation or the keys
\* the caller handed in
SnapshotsReadOnly ==
    \A p \in GenReaders :
        (/\ pc[p] \in {"sg_many", "sg_one", "many_rlock", "many_read"}
         /\ (pc'[p] # pc[p] \/ loc'[p] # loc[p]))
        => /\ gens' = gens /\ rdb' = rdb
           /\ pc'[p] # "idle" => loc'[p].fr.keys = loc[p].fr.keys
           /\ pc'[p] = "idle" => res'[p].keys = loc[p].fr.keys

\* C31: SnapshotGens returns exactly one entry per distinct requested key,
\* holding the key's current generation as SnapshotGen reports it (0 for a
\* key never bumped, 0 with GenSnapshotError fired when the Snapshot of the
\* fallback fails, the empty map for no keys); LocalGenStore.SnapshotMany
\* returns an entry for every requested key, 0 for a missing one; neither
\* changes a generation or the keys it was given.
SnapshotGensIsExact == []SnapshotsExact /\ [][SnapshotsReadOnly]_vars

\* SnapshotGens answered for a repeated, never bumped key and a key bumped
\* twice, and an empty SnapshotMany was answered before
RepeatedKeySnapshot ==
    \E p \in GenReaders :
        /\ res[p].op = "snapshot_gens"
        /\ res[p].keys = <<"u2", "u1", "u2">>
        /\ res[p].out = [k \in {"u1", "u2"} |-> IF k = "u1" THEN 2 ELSE 0]
        /\ res[p].hooks = <<>>

\* SnapshotMany and then the Snapshot of the fallback failed for a key bumped
\* once: SnapshotGens answered 0 for it and fired GenSnapshotError(1, err)
FallbackSnapshotFailed ==
    \E p \in GenReaders :
        /\ res[p].op = "snapshot_gens"
        /\ res[p].keys = <<"u1">>
        /\ res[p].seen0["u1"] = 1
        /\ res[p].out["u1"] = 0
        /\ res[p].hooks = <<Hook("GenSnapshotError", "", 1, "")>>


(***************************************************************************)
(* Cleanup by hand: a store built as NewLocalGenStore(0, retention), a     *)
(* goroutine that bumps two keys, one that reads them, both calling        *)
(* Cleanup, and a clock.                                                   *)
(***************************************************************************)
Cleaners == {1, 2}
\* the retentions Cleanup is called with
Retentions == {-1, 0, 1, 2}

NextCleanup ==
    \/ \E p \in Cleaners :
        \/ \E retention \in Retentions : StartCleanup(p, retention)
        \/ CleanLock(p)
        \/ CleanScan(p)
    \/ \E p \in {1} :
        \/ \E k \in GenUserKeys : StartBump(p, k)
        \/ BumpLock(p)
        \/ BumpRead(p)
        \/ BumpWrite(p)
        \/ BumpUnlock(p)
    \/ \E p \in {2} :
        \/ \E k \in GenUserKeys : StartSnapshot(p, k)
        \/ SnapRLock(p)
        \/ SnapRead(p)
        \/ \E ks \in KeyLists : StartSnapshotMany(p, ks)
        \/ ManyRLock(p)
        \/ ManyRead(p)
        \/ ManyRUnlock(p)
    \/ Tick

InitCleanup == InitStore(LocalOpts, NewLocalGenStore(0, MaxRetention), NoHist)

SpecCleanup == InitCleanup /\ [][NextCleanup]_vars

\* the scan of a Cleanup called at time loc.t with loc.retention > 0 deletes
\* the keys whose last Bump is more than retention before the call and leaves
\* every other entry as it was
CleanupPrunesOld ==
    \A p \in Cleaners :
        (pc[p] = "clean_scan" /\ pc'[p] # "clean_scan") =>
            /\ DOMAIN gens' \subseteq DOMAIN gens
            /\ \A k \in DOMAIN gens :
                  IF loc[p].t - gens[k].UpdatedAt > loc[p].retention
                  THEN /\ ~MapHas(gens', k)
                       /\ LocalSnapshot(gens', k) = 0
                       /\ LocalBump(gens', k, now)[k].Gen = 1
                  ELSE MapHas(gens', k) /\ gens'[k] = gens[k]

\* every other step of Cleanup, and every step of Snapshot and SnapshotMany,
\* leaves the entries, their times included, as they were
OnlyScanAndBumpWrite ==
    \A p \in Cleaners :
        (/\ pc[p] \in {"idle", "clean_lock", "snap_rlock", "snap_read",
                       "many_rlock", "many_read"}
         /\ (pc'[p] # pc[p] \/ loc'[p] # loc[p] \/ res'[p] # res[p]))
        => gens' = gens

\* a Cleanup with retention <= 0 returns at once
CleanupOffReturns ==
    \A p \in Cleaners :
        (pc'[p] = "clean_lock" /\ pc[p] # "clean_lock") => loc'[p].retention > 0

\* a key the store does not hold reads 0, and its next Bump returns 1
MissingReadsZero ==
    \A p \in Cleaners :
        /\ (pc[p] = "snap_read" /\ pc'[p] = "idle" /\ ~MapHas(gens, K(p)))
              => res'[p].gen = 0
        /\ (pc[p] = "bump_read" /\ pc'[p] = "bump_write" /\ ~MapHas(gens, K(p)))
              => Bumped(loc'[p].e, loc'[p].t).Gen = 1

\* C32: Cleanup(retention) with retention > 0 removes exactly the keys whose
\* last Bump is older than retention (Snapshot then returns 0 and the next
\* Bump 1) and keeps every other key with its generation; retention <= 0
\* removes nothing; Snapshot and SnapshotMany never refresh the time of the
\* last Bump.
CleanupRemovesExactlyOld ==
    /\ [][CleanupPrunesOld]_vars
    /\ [][OnlyScanAndBumpWrite]_vars
    /\ [][CleanupOffReturns]_vars
    /\ [][MissingReadsZero]_vars

\* a Cleanup has returned that removed u1, bumped twice long ago, and kept
\* u2, bumped exactly retention before the call; u1 was then bumped again and
\* the Bump returned 1
PrunedThenBumpedToOne ==
    \E p \in Cleaners :
        /\ res[p].op = "bump" /\ res[p].key = singleKey(Namespace, "u1")
        /\ res[p].gen = 1
        /\ hist.seen[singleKey(Namespace, "u1")] = 2
        /\ MapHas(gens, singleKey(Namespace, "u2"))
        /\ gens[singleKey(Namespace, "u2")].UpdatedAt = 2
        /\ now = 3


(***************************************************************************)
(* Invalidate over a provider whose Del may fail and a generation store    *)
(* whose Bump may fail, next to writers and readers of the key.            *)
(***************************************************************************)
InitDelFail == InitWith(LocalOpts, [NoHist EXCEPT !.watch = {"cached"}])

NextDelFail ==
    \/ Next
    \/ \E p \in Procs :
        \/ InvBumpErr(p)
        \/ InvDelErr(p)
        \/ GetHealErr(p)

SpecDelFail == InitDelFail /\ [][NextDelFail]_vars

\* the frame the provider holds for the key of goroutine p
HeldFrame(p) == DecodeSingleStrict(prov[ProvOf(p)][K(p)])

\* the Bump of Invalidate comes first and adds one: the step that ends the
\* Bump with success has raised the generation of the key by exactly one and
\* has not touched the provider; the step before it (the clock is read) and
\* a Bump that fails change neither; the step of the Del leaves the
\* generation alone
BumpThenDel ==
    \A p \in Procs :
        /\ (pc[p] = "inv_bump_end" /\ pc'[p] # "inv_bump_end") =>
              /\ pc'[p] = "inv_del" /\ loc'[p].bumpErr = Nil
              /\ GenSnapshot(K(p))' = GenSnapshot(K(p)) + 1
              /\ loc'[p].bumped = GenSnapshot(K(p)) + 1
              /\ prov' = prov
              /\ loc'[p].calls = <<"gen.Bump">>
        /\ (pc[p] = "inv_bump" /\ pc'[p] # "inv_bump") =>
              /\ gens' = gens /\ rdb' = rdb /\ prov' = prov
              /\ IF pc'[p] = "inv_bump_end" THEN loc'[p].calls = <<>>
                 ELSE /\ pc'[p] = "inv_del" /\ loc'[p].bumpErr # Nil
                      /\ loc'[p].calls = <<"gen.Bump">>
        /\ (pc[p] = "inv_del" /\ pc'[p] # "inv_del") =>
              /\ gens' = gens /\ rdb' = rdb
              /\ res'[p].calls = <<"gen.Bump", "provider.Del">>

\* the Del of an Invalidate whose Bump succeeded fails: what the provider
\* still holds of the values cached when the Invalidate was called carries a
\* generation older than the one the Bump produced, and Invalidate returns nil
StaleLeftBehind ==
    \A p \in Procs :
        (/\ pc[p] = "inv_del" /\ pc'[p] # "inv_del"
         /\ loc[p].bumpErr = Nil
         /\ ProvHas(ProvOf(p), K(p)) /\ prov' = prov) =>
            /\ res'[p].op = "inv" /\ res'[p].err = ""
            /\ HeldFrame(p).gen <= GenSnapshot(K(p))
            /\ HeldFrame(p).payload \in loc[p].cached0 =>
                  /\ HeldFrame(p).gen < loc[p].bumped
                  /\ HeldFrame(p).gen < GenSnapshot(K(p))

\* a Get that fetched an entry of an older generation goes to its self-heal,
\* whose step removes the entry and returns a miss
OlderIsHealed ==
    \A p \in Procs :
        /\ (pc[p] = "get_snap" /\ pc'[p] # "get_snap"
              /\ loc[p].dgen < GenSnapshot(K(p))) =>
                 pc'[p] = "get_heal" /\ loc'[p].reason = "gen_mismatch"
        /\ (pc[p] = "get_heal" /\ pc'[p] # "get_heal") =>
              /\ ~MapHas(prov'[ProvOf(p)], K(p))
              /\ res'[p].op = "get" /\ ~res'[p].ok /\ res'[p].err = ""

\* a Get that fetched an entry of an older generation goes to its self-heal,
\* whose step calls the provider's Del and returns a miss; the step removes
\* the entry unless that Del fails, and then leaves the provider as it was
OlderIsMissed ==
    \A p \in Procs :
        /\ (pc[p] = "get_snap" /\ pc'[p] # "get_snap"
              /\ loc[p].dgen < GenSnapshot(K(p))) =>
                 pc'[p] = "get_heal" /\ loc'[p].reason = "gen_mismatch"
        /\ (pc[p] = "get_heal" /\ pc'[p] # "get_heal") =>
              /\ res'[p].op = "get" /\ ~res'[p].ok /\ res'[p].err = ""
              /\ res'[p].calls = Append(loc[p].calls, "provider.Del")
              /\ IF res'[p].dropped = <<>>
                 THEN ~MapHas(prov'[ProvOf(p)], K(p))
                 ELSE res'[p].dropped = <<"del failed">> /\ prov' = prov

\* no Get that began after an Invalidate with a successful Bump returned
\* returns a value that was cached when that Invalidate was called
NoHitOnLeftBehind ==
    \A p \in Procs :
        (res[p].op = "get" /\ res[p].ok) =>
            /\ WriteObs(res[p].v) >= res[p].g0
            /\ res[p].g0 > 0 => res[p].v \notin res[p].stale0

\* Invalidate bumps before it deletes, and a successful Bump raises the
\* generation of the key by exactly one; so when the Bump succeeds and the Del
\* fails, the entry left in the provider carries an older generation, and the
\* next Get of the key misses and deletes it instead of returning it.
InvalidateBumpsBeforeDel ==
    /\ [][BumpThenDel]_vars
    /\ [][StaleLeftBehind]_vars
    /\ [][OlderIsHealed]_vars
    /\ []NoHitOnLeftBehind

\* C33: Invalidate bumps before it deletes, and a successful Bump raises the
\* generation of the key by exactly one; so when the Bump succeeds and the Del
\* fails, the entry left in the provider carries an older generation, and the
\* next Get of the key misses and calls the provider's Del on it instead of
\* returning it; the entry is gone when that Del succeeds, and stays, to be
\* missed again, when it fails too.
InvalidateBumpsBeforeDelThenMisses ==
    /\ [][BumpThenDel]_vars
    /\ [][StaleLeftBehind]_vars
    /\ [][OlderIsMissed]_vars
    /\ []NoHitOnLeftBehind

\* an Invalidate bumped the key to 1 and its Del failed; a Get that began after
\* it returned has missed on the entry of generation 0 and removed it
LeftBehindWasHealed ==
    \E p \in Procs, q \in Procs :
        /\ res[q].op = "inv" /\ res[q].err = ""
        /\ res[q].calls = <<"gen.Bump", "provider.Del">>
        /\ res[p].op = "get" /\ ~res[p].ok /\ res[p].g0 = 1
        /\ res[p].hooks # <<>>
        /\ res[p].hooks[1].name = "SelfHealSingle"
        /\ res[p].hooks[1].reason = "gen_mismatch"
        /\ res[p].dropped = <<>>
        /\ \A k \in Keys : ~ProvHas(1, singleKey(Namespace, k))
        /\ hist.nw = 1

\* an Invalidate bumped the key to 1 and its Del failed; a Get that began after
\* it returned has missed on the entry of generation 0, and its Del failed
\* too: the entry of generation 0 is still in the provider
LeftBehindStayed ==
    \E p \in Procs, q \in Procs :
        /\ res[q].op = "inv" /\ res[q].err = ""
        /\ res[q].calls = <<"gen.Bump", "provider.Del">>
        /\ res[p].op = "get" /\ ~res[p].ok /\ res[p].g0 = 1
        /\ res[p].hooks # <<>>
        /\ res[p].hooks[1].reason = "gen_mismatch"
        /\ res[p].dropped = <<"del failed">>
        /\ ProvHas(1, singleKey(Namespace, "u1"))
        /\ DecodeSingleStrict(prov[1][singleKey(Namespace, "u1")]).gen = 0
        /\ GenSnapshot(singleKey(Namespace, "u1")) = 1


(***************************************************************************)
(* GetBulk against everything that can go wrong below it: a cache with the *)
(* JSON codec, with or without bulk entries, over a provider whose Get may *)
(* fail, whose Del of a bulk entry may fail, and that may hold injected    *)
(* bulk entries (a header with a count of 0x7FFFFFFF and no item, a frame  *)
(* with a trailing byte, stale, with a member whose payload is no JSON     *)
(* document, with a repeated key) and injected single entries, and over a  *)
(* generation store whose SnapshotMany may fail, next to an Invalidate of  *)
(* a member.                                                               *)
(***************************************************************************)
\* the key lists GetBulk is called with here: also no keys
FaultRequests == Requests \cup {<<>>}

\* the item of key k at generation g; its payload is a JSON document or not
JSONItem(k, g, isJSON) ==
    BulkItem(k, g, IF isJSON THEN <<123, 9, g, 125>> ELSE <<110, g>>)

\* a header that announces 0x7FFFFFFF items, and no item
HugeCountFrame == magic4 \o <<version, kindBulk, 127, 255, 255, 255>>

\* a bulk entry of u1 and u3 at generation 0, and one byte after it
TrailingByteFrame ==
    EncodeBulk(<<JSONItem("u1", 0, TRUE), JSONItem("u3", 0, TRUE)>>).bytes \o <<0>>

FaultyBulks ==
    {HugeCountFrame,
     TrailingByteFrame,
     EncodeBulk(<<JSONItem("u1", 0, TRUE), JSONItem("u3", 0, TRUE)>>).bytes,
     EncodeBulk(<<JSONItem("u1", 0, TRUE), JSONItem("u3", 1, TRUE)>>).bytes,
     EncodeBulk(<<JSONItem("u1", 0, TRUE), JSONItem("u3", 0, FALSE)>>).bytes,
     EncodeBulk(<<JSONItem("u3", 0, TRUE), JSONItem("u1", 0, TRUE),
                  JSONItem("u3", 1, FALSE)>>).bytes}

\* the single entries injected: a JSON document at generation 0
SingleFrames == {EncodeSingle(0, <<123, 7, 125>>)}

InitBulkFail ==
    \E off \in BOOLEAN :
        InitWith([LocalOpts EXCEPT !.Codec = "json", !.DisableBulk = off], NoHist)

NextBulkFail ==
    \/ \E p \in BulkReaders :
        \/ \E keys \in FaultRequests : StartGetBulk(p, 1, keys)
        \/ GbFetch(p)
        \/ GbFetchErr(p)
        \/ GbValid(p)
        \/ GbValidErr(p)
        \/ GbDel(p)
        \/ GbDelErr(p)
        \/ GetFetch(p)
        \/ GetFetchErr(p)
        \/ GetSnap(p)
        \/ GetHeal(p)
        \/ SetSnap(p)
        \/ SetStore(p)
    \/ \E p \in Invalidators :
        \/ \E k \in InvUserKeys : BulkInv(p, k)
        \/ InvBumpBegin(p)
        \/ InvBump(p)
        \/ InvDel(p)
    \/ \E b \in FaultyBulks :
          ProvInject(1, bulkKeySorted(Namespace, <<"u1", "u3">>), b)
    \/ \E k \in BulkUserKeys, b \in SingleFrames :
          ProvInject(1, singleKey(Namespace, k), b)

SpecBulkFail == InitBulkFail /\ [][NextBulkFail]_vars

\* C34: whatever way an enabled GetBulk takes (bulk hit, rejected entry, miss,
\* failing fetch, bulk disabled), every requested key is either a key of the
\* values map or listed in missing, never both and never neither, the map
\* holds no other key, and missing lists the missed keys in the caller's
\* order, each as often as the caller gave it.
GetBulkPartitionsKeys ==
    \A p \in BulkReaders :
        res[p].op = "getbulk" =>
            /\ DOMAIN res[p].out \subseteq Range(res[p].keys)
            /\ \A k \in Range(res[p].keys) :
                  MapHas(res[p].out, k) # (k \in Range(res[p].missing))
            /\ res[p].missing
                 = SelectSeq(res[p].keys, LAMBDA k : ~MapHas(res[p].out, k))

\* a GetBulk for u3, u1, u3 answered u1 and listed u3 twice, in the singles
\* after a rejected entry
RepeatedMissKept ==
    \E p \in BulkReaders :
        /\ res[p].op = "getbulk"
        /\ res[p].keys = <<"u3", "u1", "u3">>
        /\ res[p].missing = <<"u3", "u3">>
        /\ DOMAIN res[p].out = {"u1"}
        /\ Fired(res[p].hooks, "BulkRejected") # <<>>


\* the bulk fetch of goroutine p finds no entry, or fails: GetBulk goes on to
\* the Get of the first unique key with the provider as it was and no hook
FetchMissFallsBack ==
    \A p \in BulkReaders :
        (/\ pc[p] = "gb_fetch" /\ pc'[p] # "gb_fetch"
         /\ (GbFetchErr(p) \/ ~ProvHas(ProvOf(p), loc[p].fr.bk))) =>
            /\ prov' = prov
            /\ pc'[p] = "get_fetch"
            /\ loc'[p].fr.calls = <<"bulk.provider.Get">>
            /\ loc'[p].fr.hooks = <<>>
            /\ loc'[p].fr.gets = <<loc[p].fr.us[1]>>

\* a Get of the singles that returns a transport error counts as a miss
SingleErrorIsMiss ==
    \A p \in BulkReaders :
        (GetFetchErr(p) /\ loc[p].task = "bulk") =>
            IF pc'[p] = "idle"
            THEN /\ loc[p].key \in Range(res'[p].missing)
                 /\ ~MapHas(res'[p].out, loc[p].key)
                 /\ res'[p].err = ""
            ELSE ~loc'[p].fr.tmp[loc[p].key].ok

\* what a GetBulk returned whose bulk fetch missed or failed
MissedFetchResult ==
    \A p \in BulkReaders :
        res[p].op = "getbulk" =>
            /\ res[p].err = ""
            /\ (/\ res[p].calls # <<>>
                /\ res[p].calls[1] = "bulk.provider.Get"
                /\ Len(res[p].calls) > 1 =>
                      res[p].calls[2] \notin {"gen.SnapshotMany", "bulk.provider.Del"})
               => /\ "bulk.provider.Del" \notin Range(res[p].calls)
                  /\ Fired(res[p].hooks, "BulkRejected") = <<>>
                  /\ ~res[p].used
                  /\ res[p].gets = uniqSorted(res[p].keys)

\* C35: when the provider's fetch of the bulk entry misses or returns a
\* transport error, GetBulk falls back to the memoized singles, deleting
\* nothing and firing no BulkRejected; and GetBulk returns a nil error in
\* every case, a failing bulk fetch and a failing single Get counting as
\* misses.
FetchFailureFallsBackQuietly ==
    /\ [][FetchMissFallsBack]_vars
    /\ [][SingleErrorIsMiss]_vars
    /\ []MissedFetchResult

\* the fetch of a bulk entry failed with the entry in the provider, the Get of
\* u1 failed as well and the Get of u3 hit: GetBulk returned u3, listed u1 as
\* missing, fired nothing, and the bulk entry is still there
QuietFallbackAfterErrors ==
    \E p \in BulkReaders :
        /\ res[p].op = "getbulk" /\ res[p].err = ""
        /\ res[p].keys = <<"u1", "u3">>
        /\ res[p].calls = <<"bulk.provider.Get", "provider.Get", "provider.Get",
                            "gen.Snapshot">>
        /\ res[p].missing = <<"u1">>
        /\ DOMAIN res[p].out = {"u3"}
        /\ res[p].hooks = <<>>
        /\ ProvHas(1, res[p].bk)
        /\ ProvHas(1, singleKey(Namespace, "u1"))


\* the number of distinct keys of a request
Distinct(keys) == Cardinality(Range(keys))

\* the step in which SnapshotMany fails fires GenSnapshotError with the number
\* of distinct requested keys and sends GetBulk to the Del of the entry
SnapshotManyErrorToDel ==
    \A p \in BulkReaders :
        GbValidErr(p) =>
              /\ pc'[p] = "gb_del"
              /\ prov' = prov
              /\ loc'[p].fr.hooks
                   = <<Hook("GenSnapshotError", "", Distinct(loc[p].fr.keys), "")>>
              /\ loc'[p].fr.reason = "invalid_or_stale"
              /\ ~loc'[p].fr.used
              /\ loc'[p].fr.out = <<>>

\* the step of the Del calls the provider's Del, fires BulkRejected and starts
\* the singles
RejectionStartsSingles ==
    \A p \in BulkReaders :
        (pc[p] = "gb_del" /\ pc'[p] # "gb_del") =>
              /\ pc'[p] = "get_fetch"
              /\ loc'[p].fr.calls = Append(loc[p].fr.calls, "bulk.provider.Del")
              /\ loc'[p].fr.hooks
                   = Append(loc[p].fr.hooks,
                            Hook("BulkRejected", Namespace,
                                 Distinct(loc[p].fr.keys), loc[p].fr.reason))
              /\ loc'[p].fr.gets = <<loc[p].fr.us[1]>>

\* the step of the Del removes the entry
RejectionRemovesEntry ==
    \A p \in BulkReaders :
        (pc[p] = "gb_del" /\ pc'[p] # "gb_del") =>
              ~MapHas(prov'[ProvOf(p)], loc[p].fr.bk)

\* the step of the Del removes the entry, unless the Del fails: the entry is
\* then left as it was, and GetBulk discards the error
RejectionRemovesUnlessDelFails ==
    \A p \in BulkReaders :
        (pc[p] = "gb_del" /\ pc'[p] # "gb_del") =>
              IF loc'[p].fr.dropped = loc[p].fr.dropped
              THEN ~MapHas(prov'[ProvOf(p)], loc[p].fr.bk)
              ELSE /\ loc'[p].fr.dropped = Append(loc[p].fr.dropped, "bulk del failed")
                   /\ prov' = prov

\* what a GetBulk returned whose SnapshotMany failed: nothing of the entry
SnapshotManyErrorResult ==
    \A p \in BulkReaders :
        (/\ res[p].op = "getbulk"
         /\ Len(res[p].calls) > 1 /\ res[p].calls[2] = "gen.SnapshotMany"
         /\ res[p].hooks # <<>> /\ res[p].hooks[1].name = "GenSnapshotError") =>
            /\ res[p].hooks[1].n = Distinct(res[p].keys)
            /\ res[p].calls[3] = "bulk.provider.Del"
            /\ res[p].hooks[2] = Hook("BulkRejected", Namespace,
                                      Distinct(res[p].keys), "invalid_or_stale")
            /\ ~res[p].used
            /\ res[p].sets = <<>>
            /\ res[p].gets = uniqSorted(res[p].keys)
            /\ res[p].err = ""

\* if the batched SnapshotMany fails while GetBulk validates a bulk entry
\* it fetched, GetBulk fires GenSnapshotError with the number of distinct
\* requested keys, treats the entry as invalid (deletes it, fires
\* BulkRejected "invalid_or_stale") and answers from the singles: no value of
\* that bulk entry is returned.
SnapshotManyFailureDeletesBulk ==
    /\ [][SnapshotManyErrorToDel]_vars
    /\ [][RejectionStartsSingles]_vars
    /\ [][RejectionRemovesEntry]_vars
    /\ []SnapshotManyErrorResult

\* C36: if the batched SnapshotMany fails while GetBulk validates a bulk entry
\* it fetched, GetBulk fires GenSnapshotError with the number of distinct
\* requested keys, treats the entry as invalid (calls the provider's Del on
\* it, fires BulkRejected "invalid_or_stale") and answers from the singles: no
\* value of that bulk entry is returned; the entry is gone from the provider
\* unless that Del failed, an error GetBulk discards.
SnapshotManyFailureRejectsBulk ==
    /\ [][SnapshotManyErrorToDel]_vars
    /\ [][RejectionStartsSingles]_vars
    /\ [][RejectionRemovesUnlessDelFails]_vars
    /\ []SnapshotManyErrorResult

\* SnapshotMany failed on an entry that was valid for u3, u1, u3; GetBulk fired
\* GenSnapshotError(2), rejected the entry and found no single: all missing
ValidEntryRejectedOnError ==
    \E p \in BulkReaders :
        /\ res[p].op = "getbulk"
        /\ res[p].keys = <<"u3", "u1", "u3">>
        /\ res[p].hooks = <<Hook("GenSnapshotError", "", 2, ""),
                            Hook("BulkRejected", Namespace, 2, "invalid_or_stale")>>
        /\ bulkValid(Namespace, <<"u1", "u3">>, res[p].items,
                     [sk \in StorageKeys(<<"u1", "u3">>) |-> GenSnapshot(sk)])
        /\ res[p].missing = <<"u3", "u1", "u3">>
        /\ res[p].dropped = <<>>
        /\ ~ProvHas(1, res[p].bk)

\* SnapshotMany failed on an entry and the Del of the entry failed too: GetBulk
\* fired both events, answered from the singles, and the entry is still in
\* the provider
FailedSnapshotEntryLeftBehind ==
    \E p \in BulkReaders :
        /\ res[p].op = "getbulk"
        /\ res[p].hooks = <<Hook("GenSnapshotError", "", 2, ""),
                            Hook("BulkRejected", Namespace, 2, "invalid_or_stale")>>
        /\ res[p].dropped = <<"bulk del failed">>
        /\ ~res[p].used
        /\ ProvHas(1, res[p].bk)


\* the requested keys whose item in the fetched entry (the last of the key)
\* has a payload the codec cannot decode
Undecodable(keys, items) ==
    {k \in Range(keys) \cap ItemKeys(items) :
        CodecDecode(LastOf(items, k).Payload).err}

\* the GetBulk of goroutine p returned after it fetched a bulk entry that
\* decoded as a frame (the SnapshotMany of the validation is its second call)
ReadEntry(p) ==
    /\ res[p].op = "getbulk"
    /\ Len(res[p].calls) > 1
    /\ res[p].calls[2] = "gen.SnapshotMany"

\* the GetBulk of goroutine p deleted the bulk entry and asked the single
\* entries for the keys ks
HealedAndAsked(p, ks) ==
    /\ "bulk.provider.Del" \in Range(res[p].calls)
    /\ ks \subseteq Range(res[p].gets)

\* a GetBulk that read an entry which is no frame, or in which a requested key
\* is absent or stale, has deleted it and asked the singles for every key
CorruptOrStaleHealed ==
    \A p \in BulkReaders :
        /\ (res[p].op = "getbulk"
              /\ Fired(res[p].hooks, "BulkRejected") # <<>>) =>
                 HealedAndAsked(p, Range(res[p].keys))
        /\ (ReadEntry(p) /\ res[p].gens # <<>>
              /\ ~bulkValid(Namespace, uniqSorted(res[p].keys), res[p].items,
                            res[p].gens)) =>
                 /\ HealedAndAsked(p, Range(res[p].keys))
                 /\ ~res[p].used

\* C37: a GetBulk that read a bulk entry which is corrupt or stale, or which
\* holds for a requested key a payload the value codec cannot decode, has
\* deleted the bulk entry before it returned and has answered the affected
\* keys from the single entries.
BulkEntryHealedOnRead ==
    /\ CorruptOrStaleHealed
    /\ \A p \in BulkReaders :
          (ReadEntry(p) /\ Undecodable(res[p].keys, res[p].items) # {}) =>
              HealedAndAsked(p, Undecodable(res[p].keys, res[p].items))

\* what the code does with a valid entry in which a requested key has a
\* payload that does not decode: the entry is used and kept, no single entry
\* is asked, and the key is listed as missing (unless an earlier item of the
\* key decodes, whose value is then returned)
UndecodableMemberIsMissing ==
    \A p \in BulkReaders :
        (ReadEntry(p) /\ res[p].used) =>
            /\ "bulk.provider.Del" \notin Range(res[p].calls)
            /\ res[p].gets = <<>>
            /\ Fired(res[p].hooks, "BulkRejected") = <<>>
            /\ \A k \in Undecodable(res[p].keys, res[p].items) :
                  IF MapHas(ByKey(res[p].items), k)
                  THEN res[p].out[k] = ByKey(res[p].items)[k]
                  ELSE k \in Range(res[p].missing)

\* everything of C37 but the undecodable member holds
BulkEntryHealedUnlessUndecodable == CorruptOrStaleHealed /\ UndecodableMemberIsMissing

\* a GetBulk used an entry whose item of u3 does not decode, while a single
\* entry of u3 is in the provider
UndecodableMemberMet ==
    \E p \in BulkReaders :
        /\ ReadEntry(p) /\ res[p].used
        /\ Undecodable(res[p].keys, res[p].items) = {"u3"}
        /\ Len(res[p].items) = 2
        /\ ProvHas(1, res[p].bk)
        /\ ProvHas(1, singleKey(Namespace, "u3"))

\* a GetBulk fetched the entry whose header announces 0x7FFFFFFF items:
\* DecodeBulk returned ErrCorrupt and the entry is about to be deleted
HugeCountRejected ==
    \E p \in BulkReaders :
        /\ pc[p] = "gb_del" /\ loc[p].fr.op = "getbulk"
        /\ loc[p].fr.raw = HugeCountFrame /\ loc[p].fr.reason = "decode_error"

\* a GetBulk fetched the entry followed by one more byte: DecodeBulk returned
\* ErrCorrupt and the entry is about to be deleted
TrailingByteRejected ==
    \E p \in BulkReaders :
        /\ pc[p] = "gb_del" /\ loc[p].fr.op = "getbulk"
        /\ loc[p].fr.raw = TrailingByteFrame /\ loc[p].fr.reason = "decode_error"


\* the value of key k in the item bulkValid validated: the last item of k
ValidatedValue(items, k) == CodecDecode(LastOf(items, k).Payload)

\* on a bulk hit the value returned for k, and the generation it is warmed
\* with, are those of the item of k whose generation was validated
FromValidatedItem(p, k) ==
    /\ LastOf(res[p].items, k).Gen = res[p].gens[singleKey(Namespace, k)]
    /\ MapHas(res[p].out, k) =>
          /\ ~ValidatedValue(res[p].items, k).err
          /\ res[p].out[k] = ValidatedValue(res[p].items, k).v
    /\ \A i \in 1..Len(res[p].sets) :
          res[p].sets[i][1] = k =>
              res[p].sets[i][2] = LastOf(res[p].items, k).Gen

\* C40: on a bulk hit the value GetBulk returns for a requested key is decoded
\* from the bulk item whose generation was validated, the last item of the
\* key; with a key repeated in the entry GetBulk neither returns nor warms
\* from an earlier item, whose generation was not validated.
HitReturnsValidatedItem ==
    \A p \in BulkReaders :
        (res[p].op = "getbulk" /\ res[p].used) =>
            \A k \in Range(res[p].keys) : FromValidatedItem(p, k)

\* the same for the keys whose last item decodes
HitReturnsValidatedItemIfDecodable ==
    \A p \in BulkReaders :
        (res[p].op = "getbulk" /\ res[p].used) =>
            \A k \in Range(res[p].keys)
                       \ Undecodable(res[p].keys, res[p].items) :
                FromValidatedItem(p, k)

\* GetBulk returned for u3, after its Invalidate, the value of the first item
\* of u3, of generation 0, from an entry whose last item of u3 is of
\* generation 1
EarlierItemReturned ==
    \E p \in BulkReaders :
        /\ res[p].op = "getbulk" /\ res[p].used
        /\ Len(res[p].items) = 3
        /\ res[p].gens[singleKey(Namespace, "u3")] = 1
        /\ MapHas(res[p].out, "u3")
        /\ res[p].out["u3"] = <<9, 0>>


\* the entry the provider holds for the key of goroutine p is a frame of the
\* current generation
HoldsFresh(p) ==
    /\ ProvHas(ProvOf(p), K(p))
    /\ ~DecodeSingleStrict(prov[ProvOf(p)][K(p)]).err
    /\ DecodeSingleStrict(prov[ProvOf(p)][K(p)]).gen = GenSnapshot(K(p))

\* the step of the self-heal of goroutine p removes an entry
HealRemoves(p) ==
    /\ pc[p] = "get_heal" /\ pc'[p] # "get_heal"
    /\ ProvHas(ProvOf(p), K(p))
    /\ ~MapHas(prov'[ProvOf(p)], K(p))

\* C38: the delete of Get's self-heal removes only the stale or corrupt entry
\* this Get fetched: in no interleaving does it remove an entry whose
\* generation is the current one (as one stored by a concurrent SetWithGen
\* between the fetch and the delete).
HealRemovesOnlyFetched ==
    [][\A p \in Procs : HealRemoves(p) => ~HoldsFresh(p)]_vars

\* what holds: a Get reaches its self-heal only with an entry it fetched that
\* is no frame or whose generation differed from the one it then read
HealOnlyAfterRejection ==
    \A p \in Procs :
        pc[p] = "get_heal" =>
            \/ DecodeSingleStrict(loc[p].raw).err
            \/ loc[p].reason = "gen_mismatch"

\* a Get is about to delete, for a generation mismatch, while the provider
\* holds an entry of the current generation that is not the one it fetched
FreshEntryAtHeal ==
    \E p \in Procs :
        /\ pc[p] = "get_heal" /\ loc[p].reason = "gen_mismatch"
        /\ HoldsFresh(p)
        /\ prov[ProvOf(p)][K(p)] # loc[p].raw


(***************************************************************************)
(* Close at any moment of the sweeper: a store built with a sweeper, two   *)
(* goroutines that bump and close, the sweeper reading the operands of its *)
(* select one by one, and a clock.                                         *)
(***************************************************************************)
InitSweep == InitStore(LocalOpts, NewLocalGenStore(1, MaxRetention), NoHist)

NextSweep ==
    \/ \E p \in Procs :
        \/ StartClose(p)
        \/ CloseLock(p)
        \/ CloseStop(p)
        \/ CloseWait(p)
        \/ \E k \in BumpUserKeys : StartBump(p, k)
        \/ BumpLock(p)
        \/ BumpRead(p)
        \/ BumpWrite(p)
        \/ BumpUnlock(p)
    \/ SweeperEvalTicker
    \/ SweeperEvalStopCh
    \/ SweeperTick
    \/ SweeperStop
    \/ CleanLock(Sweeper)
    \/ CleanScan(Sweeper)
    \/ Tick

SpecSweep == InitSweep /\ [][NextSweep]_vars

\* the sweeper is about to dereference, or has dereferenced, a ticker that
\* Close has set to nil
NilTickerUsed ==
    \/ pc[Sweeper] = "sw_eval" /\ store.ticker = "nil"
    \/ pc[Sweeper] = "panic"

\* the sweeper waits in its select on a stopped ticker and on a nil channel:
\* it never exits, and the Close that waits for it never returns
SweeperStuck ==
    /\ pc[Sweeper] = "sw_select"
    /\ loc[Sweeper].stopCh = "nil"
    /\ store.stopped
    /\ \E p \in Procs : pc[p] = "close_wait"

\* C39: a LocalGenStore with a sweeper can be closed at any moment: the
\* sweeper never uses the ticker after Close has cleared it (no nil
\* dereference), it exits, and Close returns (no deadlock).
CloseIsSafeAtAnyMoment == ~NilTickerUsed /\ ~SweeperStuck

\* a Close that finds the sweeper waiting in its select, both operands read
\* before the Close began, stops it and returns
ClosedWhileSelecting ==
    \E p \in Procs :
        /\ res[p].op = "close" /\ res[p].task = "stop"
        /\ pc[Sweeper] = "done"
====
